---- MODULE Spec2Model ----
(***************************************************************************)
(* Throwdown canvas store: the document model, the mutation protocol, the  *)
(* transactional undo/redo history (stores/canvas.svelte.ts, the variant   *)
(* with history) and the lock list (stores/canvas.svelte.ts, the variant   *)
(* with node locks).                                                       *)
(*                                                                         *)
(* Every store method is a function from a store record to a store record, *)
(* so that a method calling other methods is their composition.  The       *)
(* VARIABLES are the fields of the store; an action applies one method.    *)
(***************************************************************************)
EXTENDS Integers, Sequences, FiniteSets, TLC

VARIABLES
    canvases,        \* canvasId -> [nodes, edges, xlocks]
    activeCanvasId,  \* id of the active canvas
    selection,       \* ordered sequence of selected node ids
    history,         \* canvasId -> [undoStack, redoStack], created lazily
    inTransaction,   \* the store's transaction flag
    nextId,          \* generateId(): the next fresh id
    saveTimer,       \* createAutoSave's pending timeout: <<>> or <<[id, canvas, due]>>
    tagFilters,      \* the active tag filters, in the order added
    searchTerm,      \* the search term as its characters, <<>> for ''
    alignmentGuides, \* <<>> for null, <<guides>> otherwise
    pendingSnapTarget, \* <<>> for null, <<[nodeId, side]>> otherwise
    drag,            \* canvas-object: the pointer gesture under way, <<>> when none
    drop,            \* canvas-workspace: handleDrop suspended at an await, <<>> when none
    isLinkMode,      \* link mode is on
    linkSource,      \* the id of the source node of link mode, 0 for null
    now,             \* the time, in milliseconds
    writes,          \* the canvases put in storage by saveCanvas, in order
    trace,           \* observation: the commands executed, in order
    prev,            \* observation: the store before the last command
    filled,          \* observation: mutations of the long session's first part
    base             \* observation: the store before the first command

storeVars == <<canvases, activeCanvasId, selection, history, inTransaction,
               nextId, saveTimer, tagFilters, searchTerm, alignmentGuides,
               pendingSnapTarget, drag, drop, isLinkMode, linkSource,
          now, writes>>
vars == <<canvases, activeCanvasId, selection, history, inTransaction,
          nextId, saveTimer, tagFilters, searchTerm, alignmentGuides,
          pendingSnapTarget, drag, drop, isLinkMode, linkSource,
          now, writes, trace, prev, filled, base>>

(***************************************************************************)
(* Bounds of the model and constants of the program.                       *)
(***************************************************************************)
MaxOps == 3
MaxCapOps == 3
MaxFill == 35
MaxSelOps == 3
MaxLockOps == 3
MaxLocks == 3
MaxMoveOps == 3

HISTORY_LIMIT == 30
DEFAULT_NODE_WIDTH == 200
DEFAULT_NODE_HEIGHT == 100
PADDING == 20
AUTOSAVE_DELAY == 500
MIN_WIDTH == 120
MIN_HEIGHT == 80
SNAP_THRESHOLD == 8

Undefined == "undefined"

\* The store as one record, and the assignment of a store record to the
\* primed variables.
St ==
    [canvases |-> canvases, activeCanvasId |-> activeCanvasId,
     selection |-> selection, history |-> history,
     inTransaction |-> inTransaction, nextId |-> nextId,
     saveTimer |-> saveTimer, tagFilters |-> tagFilters,
     searchTerm |-> searchTerm, alignmentGuides |-> alignmentGuides,
     pendingSnapTarget |-> pendingSnapTarget, drag |-> drag, drop |-> drop,
     isLinkMode |-> isLinkMode, linkSource |-> linkSource,
     now |-> now, writes |-> writes]

Apply(t) ==
    /\ canvases' = t.canvases
    /\ activeCanvasId' = t.activeCanvasId
    /\ selection' = t.selection
    /\ history' = t.history
    /\ inTransaction' = t.inTransaction
    /\ nextId' = t.nextId
    /\ saveTimer' = t.saveTimer
    /\ tagFilters' = t.tagFilters
    /\ searchTerm' = t.searchTerm
    /\ alignmentGuides' = t.alignmentGuides
    /\ pendingSnapTarget' = t.pendingSnapTarget
    /\ drag' = t.drag
    /\ drop' = t.drop
    /\ isLinkMode' = t.isLinkMode
    /\ linkSource' = t.linkSource
    /\ now' = t.now
    /\ writes' = t.writes

(***************************************************************************)
(* Plain JavaScript values.                                                *)
(***************************************************************************)
\* The properties whose value may be undefined (color?, label?).
OptionalKeys == {"color", "label"}

\* obj.key, undefined when the object has no such property.
Get(obj, key) == IF key \in DOMAIN obj THEN obj[key] ELSE Undefined

\* { ...obj, ...updates }
Spread(obj, updates) ==
    [k \in DOMAIN obj \cup DOMAIN updates |->
        IF k \in DOMAIN updates THEN updates[k] ELSE obj[k]]

\* JSON.stringify of one object: a property holding undefined is left out,
\* every other property is written with its value.  The text is modelled by
\* the object it denotes.
JsonObject(obj) ==
    LET kept == {k \in DOMAIN obj : ~(k \in OptionalKeys /\ obj[k] = Undefined)}
    IN  [k \in kept |-> obj[k]]

JsonArray(arr) == [i \in 1..Len(arr) |-> JsonObject(arr[i])]

\* JSON.stringify({ nodes, edges })
JsonStringify(v) == [nodes |-> JsonArray(v.nodes), edges |-> JsonArray(v.edges)]

\* JSON.stringify(canvas): the lock list and the viewport hold no optional
\* property.
JsonStringifyCanvas(c) ==
    [k \in DOMAIN c |->
        IF k \in {"nodes", "edges"} THEN JsonArray(c[k]) ELSE c[k]]

\* JSON.parse: the value the text denotes.
JsonParse(text) == text

\* JSON.parse(JSON.stringify(v))
JsonClone(v) == JsonParse(JsonStringify(v))

\* array.filter(x => ids.has(x))
RECURSIVE FilterIn(_, _)
FilterIn(arr, ids) ==
    IF arr = <<>> THEN <<>>
    ELSE IF Head(arr) \in ids THEN <<Head(arr)>> \o FilterIn(Tail(arr), ids)
         ELSE FilterIn(Tail(arr), ids)

\* array.findIndex(n => n.id === id), 1-based; 0 when nothing matches (-1).
findIndex(arr, id) ==
    LET hits == {i \in 1..Len(arr) : arr[i].id = id}
    IN  IF hits = {} THEN 0 ELSE CHOOSE i \in hits : \A j \in hits : i <= j

includes(arr, x) == \E i \in 1..Len(arr) : arr[i] = x
Ids(arr) == {arr[i].id : i \in 1..Len(arr)}
Range(seq) == {seq[i] : i \in 1..Len(seq)}

(***************************************************************************)
(* types/canvas.ts: factories.                                             *)
(***************************************************************************)
createTextNode(id, x, y, text) ==
    [id |-> id, type |-> "text", x |-> x, y |-> y,
     width |-> DEFAULT_NODE_WIDTH, height |-> DEFAULT_NODE_HEIGHT, text |-> text]

createGroupNode(id, x, y, label) ==
    [id |-> id, type |-> "group", x |-> x, y |-> y,
     width |-> DEFAULT_NODE_WIDTH, height |-> DEFAULT_NODE_HEIGHT, label |-> label]

createEdge(id, fromNode, toNode) ==
    [id |-> id, fromNode |-> fromNode, toNode |-> toNode, toEnd |-> "arrow"]

\* 'x-locks' is optional: <<>> when the canvas has none, <<list>> otherwise.
createCanvas == [nodes |-> <<>>, edges |-> <<>>, xlocks |-> <<>>]

(***************************************************************************)
(* CanvasStore: derived state.                                             *)
(***************************************************************************)
HasActive(s) == s.activeCanvasId \in DOMAIN s.canvases
activeCanvas(s) == s.canvases[s.activeCanvasId]
nodes(s) == IF HasActive(s) THEN activeCanvas(s).nodes ELSE <<>>
edges(s) == IF HasActive(s) THEN activeCanvas(s).edges ELSE <<>>

\* selection.map(id => nodes.find(n => n.id === id)).filter(n => n !== undefined)
RECURSIVE selectedNodesOf(_, _)
selectedNodesOf(sel, ns) ==
    IF sel = <<>> THEN <<>>
    ELSE LET i == findIndex(ns, Head(sel))
         IN  (IF i = 0 THEN <<>> ELSE <<ns[i]>>) \o selectedNodesOf(Tail(sel), ns)

selectedNodes(s) == selectedNodesOf(s.selection, nodes(s))

SetNodes(s, ns) == [s EXCEPT !.canvases[s.activeCanvasId].nodes = ns]
SetEdges(s, es) == [s EXCEPT !.canvases[s.activeCanvasId].edges = es]

\* The auto-save leaving a pending timeout alone: the first call of a burst
\* sets the timer and the later ones are dropped.
autoSaveKeepPending(s, id, canvas) ==
    IF s.saveTimer # <<>> THEN s
    ELSE [s EXCEPT !.saveTimer = <<[id |-> id, canvas |-> canvas,
                                    due |-> s.now + AUTOSAVE_DELAY]>>]

\* The function createAutoSave returns: the pending timeout is cleared and a
\* new one set, to save (id, canvas) delayMs from now.
autoSave(s, id, canvas) ==
    [s EXCEPT !.saveTimer = <<[id |-> id, canvas |-> canvas,
                               due |-> s.now + AUTOSAVE_DELAY]>>]

\* triggerSave: a deep clone of the active canvas is handed to the debounced
\* auto-save.
triggerSave(s) ==
    IF HasActive(s)
    THEN autoSave(s, s.activeCanvasId, JsonParse(JsonStringifyCanvas(activeCanvas(s))))
    ELSE s

(***************************************************************************)
(* CanvasStore: undo/redo history.                                         *)
(***************************************************************************)
EmptyHistory == [undoStack |-> <<>>, redoStack |-> <<>>]
HasHistory(s) == s.activeCanvasId \in DOMAIN s.history
historyOf(s) == IF HasHistory(s) THEN s.history[s.activeCanvasId] ELSE EmptyHistory

\* One history for all the documents: the stacks written for the active
\* document are every document's.
SetHistoryShared(s, h) == [s EXCEPT !.history = [c \in DOMAIN s.canvases |-> h]]

SetHistory(s, h) == [s EXCEPT !.history = (s.activeCanvasId :> h) @@ s.history]

Content(s) == [nodes |-> nodes(s), edges |-> edges(s)]

\* pushSnapshot with the redo stack left alone (the "new action invalidates
\* redo" line dropped).
pushSnapshotKeepRedo(s) ==
    IF ~HasActive(s) THEN s
    ELSE IF s.inTransaction THEN s
    ELSE LET h == historyOf(s)
             pushed == Append(h.undoStack, JsonClone(Content(s)))
             capped == IF Len(pushed) > HISTORY_LIMIT THEN Tail(pushed) ELSE pushed
         IN  SetHistory(s, [undoStack |-> capped, redoStack |-> h.redoStack])

\* pushSnapshot evicting the newest entry instead of the oldest.
pushSnapshotPop(s) ==
    IF ~HasActive(s) THEN s
    ELSE IF s.inTransaction THEN s
    ELSE LET h == historyOf(s)
             pushed == Append(h.undoStack, JsonClone(Content(s)))
             capped == IF Len(pushed) > HISTORY_LIMIT
                       THEN SubSeq(pushed, 1, Len(pushed) - 1) ELSE pushed
         IN  SetHistory(s, [undoStack |-> capped, redoStack |-> <<>>])

\* pushSnapshot taking the snapshot of an empty document.
pushSnapshotEmpty(s) ==
    IF ~HasActive(s) THEN s
    ELSE IF s.inTransaction THEN s
    ELSE LET h == historyOf(s)
             pushed == Append(h.undoStack, [nodes |-> <<>>, edges |-> <<>>])
             capped == IF Len(pushed) > HISTORY_LIMIT THEN Tail(pushed) ELSE pushed
         IN  SetHistory(s, [undoStack |-> capped, redoStack |-> <<>>])

pushSnapshot(s) ==
    IF ~HasActive(s) THEN s
    ELSE IF s.inTransaction THEN s
    ELSE LET h == historyOf(s)
             snapshot == JsonClone(Content(s))
             pushed == Append(h.undoStack, snapshot)
             capped == IF Len(pushed) > HISTORY_LIMIT THEN Tail(pushed) ELSE pushed
         IN  SetHistory(s, [undoStack |-> capped, redoStack |-> <<>>])

\* beginTransaction raising the flag without taking the snapshot.
beginTransactionNoPush(s) ==
    IF s.inTransaction THEN s
    ELSE [s EXCEPT !.inTransaction = TRUE]

beginTransaction(s) ==
    IF s.inTransaction THEN s
    ELSE [pushSnapshot(s) EXCEPT !.inTransaction = TRUE]

endTransaction(s) ==
    LET s1 == [s EXCEPT !.inTransaction = FALSE]
        h == historyOf(s1)
    IN  IF HasActive(s1) /\ HasHistory(s1) /\ Len(h.undoStack) > 0
        THEN LET lastSnapshot == h.undoStack[Len(h.undoStack)]
                 currentState == JsonStringify(Content(s1))
                 snapshotState == JsonStringify(lastSnapshot)
             IN  IF currentState = snapshotState
                 THEN SetHistory(s1, [h EXCEPT !.undoStack =
                                        SubSeq(h.undoStack, 1, Len(h.undoStack) - 1)])
                 ELSE s1
        ELSE s1

\* undo without the selection clean-up.
undoKeepSelection(s) ==
    LET h == historyOf(s) IN
    IF ~HasActive(s) \/ ~HasHistory(s) \/ Len(h.undoStack) = 0 THEN s
    ELSE LET previousSnapshot == h.undoStack[Len(h.undoStack)]
             s1 == SetHistory(s,
                     [undoStack |-> SubSeq(h.undoStack, 1, Len(h.undoStack) - 1),
                      redoStack |-> Append(h.redoStack, JsonClone(Content(s)))])
         IN  triggerSave(SetEdges(SetNodes(s1, previousSnapshot.nodes),
                                  previousSnapshot.edges))

undo(s) ==
    LET h == historyOf(s) IN
    IF ~HasActive(s) \/ ~HasHistory(s) \/ Len(h.undoStack) = 0 THEN s
    ELSE LET currentSnapshot == JsonClone(Content(s))
             previousSnapshot == h.undoStack[Len(h.undoStack)]
             s1 == SetHistory(s,
                     [undoStack |-> SubSeq(h.undoStack, 1, Len(h.undoStack) - 1),
                      redoStack |-> Append(h.redoStack, currentSnapshot)])
             s2 == SetEdges(SetNodes(s1, previousSnapshot.nodes),
                            previousSnapshot.edges)
             nodeIds == Ids(previousSnapshot.nodes)
             s3 == [s2 EXCEPT !.selection = FilterIn(s2.selection, nodeIds)]
         IN  triggerSave(s3)

\* redo restoring the snapshot without saving the current state for undo.
redoNoPush(s) ==
    LET h == historyOf(s) IN
    IF ~HasActive(s) \/ ~HasHistory(s) \/ Len(h.redoStack) = 0 THEN s
    ELSE LET nextSnapshot == h.redoStack[Len(h.redoStack)]
             s1 == SetHistory(s,
                     [undoStack |-> h.undoStack,
                      redoStack |-> SubSeq(h.redoStack, 1, Len(h.redoStack) - 1)])
             s2 == SetEdges(SetNodes(s1, nextSnapshot.nodes), nextSnapshot.edges)
         IN  triggerSave([s2 EXCEPT !.selection =
                            FilterIn(s2.selection, Ids(nextSnapshot.nodes))])

redo(s) ==
    LET h == historyOf(s) IN
    IF ~HasActive(s) \/ ~HasHistory(s) \/ Len(h.redoStack) = 0 THEN s
    ELSE LET currentSnapshot == JsonClone(Content(s))
             nextSnapshot == h.redoStack[Len(h.redoStack)]
             s1 == SetHistory(s,
                     [undoStack |-> Append(h.undoStack, currentSnapshot),
                      redoStack |-> SubSeq(h.redoStack, 1, Len(h.redoStack) - 1)])
             s2 == SetEdges(SetNodes(s1, nextSnapshot.nodes), nextSnapshot.edges)
             nodeIds == Ids(nextSnapshot.nodes)
             s3 == [s2 EXCEPT !.selection = FilterIn(s2.selection, nodeIds)]
         IN  triggerSave(s3)

(***************************************************************************)
(* utils/geometry.ts                                                       *)
(***************************************************************************)
Min(a, b) == IF a <= b THEN a ELSE b
Max(a, b) == IF a >= b THEN a ELSE b

RECURSIVE FoldBox(_, _)
FoldBox(ns, box) ==
    IF ns = <<>> THEN box
    ELSE LET n == Head(ns)
         IN  FoldBox(Tail(ns),
                     [minX |-> Min(box.minX, n.x), minY |-> Min(box.minY, n.y),
                      maxX |-> Max(box.maxX, n.x + n.width),
                      maxY |-> Max(box.maxY, n.y + n.height)])

\* calculateBoundingBox of a non-empty node list (null for the empty list is
\* the caller's early return).
calculateBoundingBox(ns) ==
    LET n == Head(ns)
        box == FoldBox(Tail(ns), [minX |-> n.x, minY |-> n.y,
                                  maxX |-> n.x + n.width, maxY |-> n.y + n.height])
    IN  [x |-> box.minX, y |-> box.minY,
         width |-> box.maxX - box.minX, height |-> box.maxY - box.minY]

(***************************************************************************)
(* utils/alignment.ts and utils/geometry.ts: alignment guides and edge     *)
(* snapping of a dragged node.                                             *)
(***************************************************************************)
Abs(a) == IF a < 0 THEN -a ELSE a

\* centerX and centerY are exact for the even widths and heights used here.
getNodeBounds(node) ==
    [left |-> node.x, right |-> node.x + node.width,
     top |-> node.y, bottom |-> node.y + node.height,
     centerX |-> node.x + node.width \div 2,
     centerY |-> node.y + node.height \div 2]

\* checkAlignment with callbacks testing "dist <= closestSnapDist": on a tie
\* the relationship found last gives the position.
checkAlignmentLastWins(acc, value1, value2, threshold, snapTo, guide) ==
    LET distance == Abs(value1 - value2) IN
    IF distance <= threshold
    THEN [snap |-> IF distance <= acc.dist THEN <<snapTo>> ELSE acc.snap,
          dist |-> IF distance <= acc.dist THEN distance ELSE acc.dist,
          guides |-> IF ~includes(acc.guides, guide)
                     THEN Append(acc.guides, guide) ELSE acc.guides]
    ELSE acc

\* checkAlignment with the callbacks of calculateAlignments: acc holds the
\* snap position (<<>> for null), the closest distance and the guides of one
\* axis.
checkAlignment(acc, value1, value2, threshold, snapTo, guide) ==
    LET distance == Abs(value1 - value2) IN
    IF distance <= threshold
    THEN [snap |-> IF distance < acc.dist THEN <<snapTo>> ELSE acc.snap,
          dist |-> IF distance < acc.dist THEN distance ELSE acc.dist,
          guides |-> IF ~includes(acc.guides, guide)
                     THEN Append(acc.guides, guide) ELSE acc.guides]
    ELSE acc

alignX(acc, dragging, target, width, threshold) ==
    LET a1 == checkAlignment(acc, dragging.left, target.left, threshold,
                             target.left, target.left)
        a2 == checkAlignment(a1, dragging.right, target.right, threshold,
                             target.right - width, target.right)
        a3 == checkAlignment(a2, dragging.left, target.right, threshold,
                             target.right, target.right)
        a4 == checkAlignment(a3, dragging.right, target.left, threshold,
                             target.left - width, target.left)
    IN  checkAlignment(a4, dragging.centerX, target.centerX, threshold,
                       target.centerX - width \div 2, target.centerX)

alignY(acc, dragging, target, height, threshold) ==
    LET a1 == checkAlignment(acc, dragging.top, target.top, threshold,
                             target.top, target.top)
        a2 == checkAlignment(a1, dragging.bottom, target.bottom, threshold,
                             target.bottom - height, target.bottom)
        a3 == checkAlignment(a2, dragging.top, target.bottom, threshold,
                             target.bottom, target.bottom)
        a4 == checkAlignment(a3, dragging.bottom, target.top, threshold,
                             target.top - height, target.top)
    IN  checkAlignment(a4, dragging.centerY, target.centerY, threshold,
                       target.centerY - height \div 2, target.centerY)

RECURSIVE alignLoop(_, _, _, _, _)
alignLoop(acc, draggingNode, otherNodes, i, threshold) ==
    IF i > Len(otherNodes) THEN acc
    ELSE LET dragging == getNodeBounds(draggingNode)
             target == getNodeBounds(otherNodes[i])
         IN  alignLoop([x |-> alignX(acc.x, dragging, target, draggingNode.width, threshold),
                        y |-> alignY(acc.y, dragging, target, draggingNode.height, threshold)],
                       draggingNode, otherNodes, i + 1, threshold)

calculateAlignments(draggingNode, otherNodes, threshold) ==
    LET start == [snap |-> <<>>, dist |-> threshold + 1, guides |-> <<>>]
        acc == alignLoop([x |-> start, y |-> start], draggingNode, otherNodes, 1, threshold)
    IN  [guides |-> [vertical |-> acc.x.guides, horizontal |-> acc.y.guides],
         snapX |-> acc.x.snap, snapY |-> acc.y.snap]

getEdgePosition(node, side) ==
    CASE side = "left" -> node.x
      [] side = "right" -> node.x + node.width
      [] side = "top" -> node.y
      [] side = "bottom" -> node.y + node.height

hasOverlap(dragged, target, axis) ==
    IF axis = "vertical"
    THEN dragged.y + dragged.height > target.y /\ dragged.y < target.y + target.height
    ELSE dragged.x + dragged.width > target.x /\ dragged.x < target.x + target.width

edgePairs ==
    <<[draggedSide |-> "right", targetSide |-> "left", axis |-> "vertical"],
      [draggedSide |-> "left", targetSide |-> "right", axis |-> "vertical"],
      [draggedSide |-> "bottom", targetSide |-> "top", axis |-> "horizontal"],
      [draggedSide |-> "top", targetSide |-> "bottom", axis |-> "horizontal"]>>

\* One edge pair with "distance <= closestSnap.distance": on a tie the
\* candidate found last is kept.
snapPairLastWins(closestSnap, dragged, target, pair, threshold) ==
    IF ~hasOverlap(dragged, target, pair.axis) THEN closestSnap
    ELSE LET draggedEdge == getEdgePosition(dragged, pair.draggedSide)
             targetEdge == getEdgePosition(target, pair.targetSide)
             distance == Abs(draggedEdge - targetEdge)
             snapX == CASE pair.draggedSide = "right" -> targetEdge - dragged.width
                        [] pair.draggedSide = "left" -> targetEdge
                        [] OTHER -> dragged.x
             snapY == CASE pair.draggedSide = "bottom" -> targetEdge - dragged.height
                        [] pair.draggedSide = "top" -> targetEdge
                        [] OTHER -> dragged.y
         IN  IF distance <= threshold
                /\ (closestSnap = <<>> \/ distance <= closestSnap[1].distance)
             THEN <<[targetNode |-> target, draggedSide |-> pair.draggedSide,
                     targetSide |-> pair.targetSide, snapX |-> snapX,
                     snapY |-> snapY, distance |-> distance]>>
             ELSE closestSnap

\* One edge pair putting the dragged node's origin, not its right or bottom
\* edge, on the target edge.
snapPairOrigin(closestSnap, dragged, target, pair, threshold) ==
    IF ~hasOverlap(dragged, target, pair.axis) THEN closestSnap
    ELSE LET draggedEdge == getEdgePosition(dragged, pair.draggedSide)
             targetEdge == getEdgePosition(target, pair.targetSide)
             distance == Abs(draggedEdge - targetEdge)
             snapX == CASE pair.draggedSide = "right" -> targetEdge
                        [] pair.draggedSide = "left" -> targetEdge
                        [] OTHER -> dragged.x
             snapY == CASE pair.draggedSide = "bottom" -> targetEdge
                        [] pair.draggedSide = "top" -> targetEdge
                        [] OTHER -> dragged.y
         IN  IF distance <= threshold
                /\ (closestSnap = <<>> \/ distance < closestSnap[1].distance)
             THEN <<[targetNode |-> target, draggedSide |-> pair.draggedSide,
                     targetSide |-> pair.targetSide, snapX |-> snapX,
                     snapY |-> snapY, distance |-> distance]>>
             ELSE closestSnap

\* One edge pair of detectEdgeSnap; closestSnap is <<>> for null.
snapPair(closestSnap, dragged, target, pair, threshold) ==
    IF ~hasOverlap(dragged, target, pair.axis) THEN closestSnap
    ELSE LET draggedEdge == getEdgePosition(dragged, pair.draggedSide)
             targetEdge == getEdgePosition(target, pair.targetSide)
             distance == Abs(draggedEdge - targetEdge)
             snapX == CASE pair.draggedSide = "right" -> targetEdge - dragged.width
                        [] pair.draggedSide = "left" -> targetEdge
                        [] OTHER -> dragged.x
             snapY == CASE pair.draggedSide = "bottom" -> targetEdge - dragged.height
                        [] pair.draggedSide = "top" -> targetEdge
                        [] OTHER -> dragged.y
         IN  IF distance <= threshold
                /\ (closestSnap = <<>> \/ distance < closestSnap[1].distance)
             THEN <<[targetNode |-> target, draggedSide |-> pair.draggedSide,
                     targetSide |-> pair.targetSide, snapX |-> snapX,
                     snapY |-> snapY, distance |-> distance]>>
             ELSE closestSnap

RECURSIVE snapLoop(_, _, _, _, _)
snapLoop(closestSnap, dragged, others, i, threshold) ==
    IF i > Len(others) THEN closestSnap
    ELSE IF others[i].id = dragged.id
    THEN snapLoop(closestSnap, dragged, others, i + 1, threshold)
    ELSE LET c1 == snapPair(closestSnap, dragged, others[i], edgePairs[1], threshold)
             c2 == snapPair(c1, dragged, others[i], edgePairs[2], threshold)
             c3 == snapPair(c2, dragged, others[i], edgePairs[3], threshold)
             c4 == snapPair(c3, dragged, others[i], edgePairs[4], threshold)
         IN  snapLoop(c4, dragged, others, i + 1, threshold)

detectEdgeSnap(dragged, others, threshold) == snapLoop(<<>>, dragged, others, 1, threshold)

(***************************************************************************)
(* CanvasStore: canvas operations.                                         *)
(***************************************************************************)
switchCanvas(s, id) ==
    IF id \in DOMAIN s.canvases
    THEN [s EXCEPT !.activeCanvasId = id, !.selection = <<>>]
    ELSE s

(***************************************************************************)
(* CanvasStore: node operations.                                           *)
(***************************************************************************)
addNode(s, node) ==
    IF HasActive(s)
    THEN LET s1 == pushSnapshot(s)
         IN  triggerSave(SetNodes(s1, Append(nodes(s1), node)))
    ELSE s

addTextNode(s, x, y, text) ==
    addNode([s EXCEPT !.nextId = @ + 1], createTextNode(s.nextId, x, y, text))

addGroupNode(s, x, y, label) ==
    LET node == createGroupNode(s.nextId, x, y, label)
        s0 == [s EXCEPT !.nextId = @ + 1]
    IN  IF HasActive(s0)
        THEN LET s1 == pushSnapshot(s0)
             IN  triggerSave(SetNodes(s1, <<node>> \o nodes(s1)))
        ELSE s0

\* updateNode taking the snapshot after the node was replaced.
updateNodePushAfter(s, id, updates) ==
    IF ~HasActive(s) THEN s
    ELSE LET index == findIndex(nodes(s), id) IN
         IF index # 0
         THEN triggerSave(pushSnapshot(SetNodes(s,
                 [nodes(s) EXCEPT ![index] = Spread(nodes(s)[index], updates)])))
         ELSE s

updateNode(s, id, updates) ==
    IF ~HasActive(s) THEN s
    ELSE LET index == findIndex(nodes(s), id) IN
         IF index # 0
         THEN LET s1 == pushSnapshot(s)
              IN  triggerSave(SetNodes(s1,
                     [nodes(s1) EXCEPT ![index] = Spread(nodes(s1)[index], updates)]))
         ELSE s

moveNode(s, id, x, y) == updateNode(s, id, [x |-> x, y |-> y])

resizeNode(s, id, width, height) ==
    updateNode(s, id, [width |-> width, height |-> height])

\* deleteNode that forgets the edges of the node.
deleteNodeKeepEdges(s, id) ==
    IF ~HasActive(s) THEN s
    ELSE LET s1 == pushSnapshot(s)
             s2 == SetNodes(s1, SelectSeq(nodes(s1), LAMBDA n : n.id # id))
         IN  triggerSave([s2 EXCEPT !.selection =
                            SelectSeq(s2.selection, LAMBDA x : x # id)])

deleteNode(s, id) ==
    IF ~HasActive(s) THEN s
    ELSE LET s1 == pushSnapshot(s)
             s2 == SetNodes(s1, SelectSeq(nodes(s1), LAMBDA n : n.id # id))
             s3 == SetEdges(s2, SelectSeq(edges(s2),
                                  LAMBDA e : e.fromNode # id /\ e.toNode # id))
             s4 == [s3 EXCEPT !.selection =
                        SelectSeq(s3.selection, LAMBDA x : x # id)]
         IN  triggerSave(s4)

RECURSIVE deleteEach(_, _)
deleteEach(s, toDelete) ==
    IF toDelete = <<>> THEN s
    ELSE deleteEach(deleteNode(s, Head(toDelete)), Tail(toDelete))

deleteSelectedNodes(s) ==
    endTransaction(deleteEach(beginTransaction(s), s.selection))

\* createGroupFromSelection putting the group at the front of the node list.
createGroupFromSelectionFront(s, label) ==
    IF ~HasActive(s) \/ Len(s.selection) = 0 THEN s
    ELSE LET sel == selectedNodes(s) IN
         IF Len(sel) = 0 THEN s
         ELSE LET s1 == pushSnapshot(s)
                  bounds == calculateBoundingBox(sel)
                  groupNode == [id |-> s1.nextId, type |-> "group",
                                x |-> bounds.x - PADDING, y |-> bounds.y - PADDING,
                                width |-> bounds.width + PADDING * 2,
                                height |-> bounds.height + PADDING * 2,
                                label |-> IF label = Undefined THEN "Group" ELSE label]
                  s2 == SetNodes([s1 EXCEPT !.nextId = @ + 1],
                                 <<groupNode>> \o nodes(s1))
              IN  triggerSave([s2 EXCEPT !.selection = <<groupNode.id>>])

createGroupFromSelection(s, label) ==
    IF ~HasActive(s) \/ Len(s.selection) = 0 THEN s
    ELSE LET sel == selectedNodes(s) IN
         IF Len(sel) = 0 THEN s
         ELSE LET s1 == pushSnapshot(s)
                  bounds == calculateBoundingBox(sel)
                  groupNode == [id |-> s1.nextId, type |-> "group",
                                x |-> bounds.x - PADDING, y |-> bounds.y - PADDING,
                                width |-> bounds.width + PADDING * 2,
                                height |-> bounds.height + PADDING * 2,
                                label |-> IF label = Undefined THEN "Group" ELSE label]
                  selectedIds == Range(s1.selection)
                  hits == {i \in 1..Len(nodes(s1)) : nodes(s1)[i].id \in selectedIds}
                  \* insertIndex, 0-based: the first selected node, or the length
                  insertIndex == IF hits = {} THEN Len(nodes(s1))
                                 ELSE (CHOOSE i \in hits : \A j \in hits : i <= j) - 1
                  spliced == SubSeq(nodes(s1), 1, insertIndex) \o <<groupNode>>
                             \o SubSeq(nodes(s1), insertIndex + 1, Len(nodes(s1)))
                  s2 == SetNodes([s1 EXCEPT !.nextId = @ + 1], spliced)
              IN  triggerSave([s2 EXCEPT !.selection = <<groupNode.id>>])

(***************************************************************************)
(* CanvasStore: edge operations.                                           *)
(***************************************************************************)
addEdge(s, fromNode, toNode) ==
    LET edge == createEdge(s.nextId, fromNode, toNode)
        s0 == [s EXCEPT !.nextId = @ + 1]
    IN  IF HasActive(s0)
        THEN LET s1 == pushSnapshot(s0)
             IN  triggerSave(SetEdges(s1, Append(edges(s1), edge)))
        ELSE s0

deleteEdge(s, id) ==
    IF HasActive(s)
    THEN LET s1 == pushSnapshot(s)
         IN  triggerSave(SetEdges(s1, SelectSeq(edges(s1), LAMBDA e : e.id # id)))
    ELSE s

updateEdge(s, id, updates) ==
    IF HasActive(s)
    THEN LET index == findIndex(edges(s), id) IN
         IF index # 0
         THEN LET s1 == pushSnapshot(s)
              IN  triggerSave(SetEdges(s1,
                     [edges(s1) EXCEPT ![index] = Spread(edges(s1)[index], updates)]))
         ELSE s
    ELSE s

(***************************************************************************)
(* CanvasStore: selection operations.                                      *)
(***************************************************************************)

\* select without the includes test.
selectAgain(s, id) == [s EXCEPT !.selection = Append(@, id)]

select(s, id) ==
    IF ~includes(s.selection, id)
    THEN [s EXCEPT !.selection = Append(@, id)]
    ELSE s

deselect(s, id) == [s EXCEPT !.selection = SelectSeq(@, LAMBDA x : x # id)]

toggleSelection(s, id) ==
    IF includes(s.selection, id) THEN deselect(s, id) ELSE select(s, id)

selectOnly(s, id) == [s EXCEPT !.selection = <<id>>]

selectAll(s) == [s EXCEPT !.selection = [i \in 1..Len(nodes(s)) |-> nodes(s)[i].id]]

clearSelection(s) == [s EXCEPT !.selection = <<>>]

setSelection(s, ids) == [s EXCEPT !.selection = ids]

(***************************************************************************)
(* CanvasStore with node locks (stores/canvas.svelte.ts): this variant of  *)
(* the store keeps no history; its methods carry the suffix L where the    *)
(* variant with history has a method of the same name.                     *)
(***************************************************************************)
Sides == {"top", "right", "bottom", "left"}

\* get locks(): activeCanvas?.['x-locks'] ?? []
locks(s) ==
    IF HasActive(s) /\ activeCanvas(s).xlocks # <<>>
    THEN activeCanvas(s).xlocks[1] ELSE <<>>

SetLocks(s, ls) == [s EXCEPT !.canvases[s.activeCanvasId].xlocks = <<ls>>]

\* deleteNode leaving the lock list alone.
deleteNodeLKeepLocks(s, id) ==
    IF ~HasActive(s) THEN s
    ELSE LET s1 == SetNodes(s, SelectSeq(nodes(s), LAMBDA n : n.id # id))
             s2 == SetEdges(s1, SelectSeq(edges(s1),
                                  LAMBDA e : e.fromNode # id /\ e.toNode # id))
             s4 == [s2 EXCEPT !.selection =
                        SelectSeq(s2.selection, LAMBDA x : x # id)]
         IN  triggerSave(s4)

deleteNodeL(s, id) ==
    IF ~HasActive(s) THEN s
    ELSE LET s1 == SetNodes(s, SelectSeq(nodes(s), LAMBDA n : n.id # id))
             s2 == SetEdges(s1, SelectSeq(edges(s1),
                                  LAMBDA e : e.fromNode # id /\ e.toNode # id))
             s3 == IF activeCanvas(s2).xlocks # <<>>
                   THEN SetLocks(s2, SelectSeq(locks(s2),
                                  LAMBDA l : l.nodeA # id /\ l.nodeB # id))
                   ELSE s2
             s4 == [s3 EXCEPT !.selection =
                        SelectSeq(s3.selection, LAMBDA x : x # id)]
         IN  triggerSave(s4)

sameLock(l, nodeA, sideA, nodeB, sideB) ==
    l.nodeA = nodeA /\ l.sideA = sideA /\ l.nodeB = nodeB /\ l.sideB = sideB

\* addLock comparing in the given direction only.
addLockOneWay(s, nodeA, sideA, nodeB, sideB) ==
    IF ~HasActive(s) THEN [store |-> s, result |-> <<>>]
    ELSE LET s1 == IF activeCanvas(s).xlocks = <<>> THEN SetLocks(s, <<>>) ELSE s
             exists == \E i \in 1..Len(locks(s1)) :
                          sameLock(locks(s1)[i], nodeA, sideA, nodeB, sideB)
         IN  IF exists THEN [store |-> s1, result |-> <<>>]
             ELSE LET lock == [id |-> s1.nextId, nodeA |-> nodeA, sideA |-> sideA,
                               nodeB |-> nodeB, sideB |-> sideB]
                      s2 == SetLocks([s1 EXCEPT !.nextId = @ + 1],
                                     Append(locks(s1), lock))
                  IN  [store |-> triggerSave(s2), result |-> <<lock>>]

\* addLock: the new store and the value returned (<<>> for null, <<lock>>
\* for the lock added).
addLock(s, nodeA, sideA, nodeB, sideB) ==
    IF ~HasActive(s) THEN [store |-> s, result |-> <<>>]
    ELSE LET s1 == IF activeCanvas(s).xlocks = <<>> THEN SetLocks(s, <<>>) ELSE s
             exists == \E i \in 1..Len(locks(s1)) :
                          \/ sameLock(locks(s1)[i], nodeA, sideA, nodeB, sideB)
                          \/ sameLock(locks(s1)[i], nodeB, sideB, nodeA, sideA)
         IN  IF exists THEN [store |-> s1, result |-> <<>>]
             ELSE LET lock == [id |-> s1.nextId, nodeA |-> nodeA, sideA |-> sideA,
                               nodeB |-> nodeB, sideB |-> sideB]
                      s2 == SetLocks([s1 EXCEPT !.nextId = @ + 1],
                                     Append(locks(s1), lock))
                  IN  [store |-> triggerSave(s2), result |-> <<lock>>]

removeLock(s, lockId) ==
    IF ~HasActive(s) \/ activeCanvas(s).xlocks = <<>> THEN s
    ELSE triggerSave(SetLocks(s, SelectSeq(locks(s), LAMBDA l : l.id # lockId)))

removeLocksForNode(s, nodeId) ==
    IF ~HasActive(s) \/ activeCanvas(s).xlocks = <<>> THEN s
    ELSE triggerSave(SetLocks(s, SelectSeq(locks(s),
                        LAMBDA l : l.nodeA # nodeId /\ l.nodeB # nodeId)))

\* updateNode of the store with locks: no snapshot is taken.
updateNodeL(s, id, updates) ==
    IF ~HasActive(s) THEN s
    ELSE LET index == findIndex(nodes(s), id) IN
         IF index # 0
         THEN triggerSave(SetNodes(s,
                 [nodes(s) EXCEPT ![index] = Spread(nodes(s)[index], updates)]))
         ELSE s

moveNodeL(s, id, x, y) == updateNodeL(s, id, [x |-> x, y |-> y])

resizeNodeL(s, id, width, height) == updateNodeL(s, id, [width |-> width, height |-> height])

setAlignmentGuides(s, guides) == [s EXCEPT !.alignmentGuides = <<guides>>]
clearAlignmentGuides(s) == [s EXCEPT !.alignmentGuides = <<>>]
setPendingSnapTarget(s, nodeId, side) ==
    [s EXCEPT !.pendingSnapTarget = <<[nodeId |-> nodeId, side |-> side]>>]
clearPendingSnapTarget(s) == [s EXCEPT !.pendingSnapTarget = <<>>]

\* The ids one turn of the loop over the locks pushes on the queue.
RECURSIVE pushNeighbours(_, _, _)
pushNeighbours(ls, current, visited) ==
    IF ls = <<>> THEN <<>>
    ELSE LET lock == Head(ls)
             a == IF lock.nodeA = current /\ ~includes(visited, lock.nodeB)
                  THEN <<lock.nodeB>> ELSE <<>>
             b == IF lock.nodeB = current /\ ~includes(visited, lock.nodeA)
                  THEN <<lock.nodeA>> ELSE <<>>
         IN  a \o b \o pushNeighbours(Tail(ls), current, visited)

\* The while loop of getLockedCluster; visited in insertion order.
RECURSIVE clusterLoop(_, _, _)
clusterLoop(ls, visited, queue) ==
    IF queue = <<>> THEN visited
    ELSE LET current == Head(queue) IN
         IF includes(visited, current) THEN clusterLoop(ls, visited, Tail(queue))
         ELSE LET seen == Append(visited, current)
              IN  clusterLoop(ls, seen, Tail(queue) \o pushNeighbours(ls, current, seen))

\* getLockedCluster following each lock from nodeA to nodeB only.
RECURSIVE pushForward(_, _, _)
pushForward(ls, current, visited) ==
    IF ls = <<>> THEN <<>>
    ELSE LET lock == Head(ls)
             a == IF lock.nodeA = current /\ ~includes(visited, lock.nodeB)
                  THEN <<lock.nodeB>> ELSE <<>>
         IN  a \o pushForward(Tail(ls), current, visited)

RECURSIVE forwardLoop(_, _, _)
forwardLoop(ls, visited, queue) ==
    IF queue = <<>> THEN visited
    ELSE LET current == Head(queue) IN
         IF includes(visited, current) THEN forwardLoop(ls, visited, Tail(queue))
         ELSE LET seen == Append(visited, current)
              IN  forwardLoop(ls, seen, Tail(queue) \o pushForward(ls, current, seen))

getLockedClusterForward(s, nodeId) == forwardLoop(locks(s), <<>>, <<nodeId>>)

getLockedCluster(s, nodeId) == clusterLoop(locks(s), <<>>, <<nodeId>>)

\* A sequence with every element kept at its first place only (the order in
\* which a Set lists what was added).
RECURSIVE dedupe(_, _)
dedupe(seq, seen) ==
    IF seq = <<>> THEN seen
    ELSE dedupe(Tail(seq), IF includes(seen, Head(seq)) THEN seen
                           ELSE Append(seen, Head(seq)))

RECURSIVE clustersOf(_, _)
clustersOf(s, ids) ==
    IF ids = <<>> THEN <<>>
    ELSE getLockedCluster(s, Head(ids)) \o clustersOf(s, Tail(ids))

\* for (const id of ids) { node = find(id); if (node) updateNode(id, moved) }
RECURSIVE translateEach(_, _, _, _)
translateEach(s, ids, dx, dy) ==
    IF ids = <<>> THEN s
    ELSE LET i == findIndex(nodes(s), Head(ids))
             s1 == IF i = 0 THEN s
                   ELSE updateNodeL(s, Head(ids),
                           [x |-> nodes(s)[i].x + dx, y |-> nodes(s)[i].y + dy])
         IN  translateEach(s1, Tail(ids), dx, dy)

\* moveSelectedNodes moving the selected nodes only.
moveSelectedNodesAlone(s, dx, dy) == translateEach(s, s.selection, dx, dy)

moveSelectedNodesL(s, dx, dy) ==
    LET nodesToMove == dedupe(clustersOf(s, s.selection), <<>>)
    IN  translateEach(s, nodesToMove, dx, dy)

(***************************************************************************)
(* components/canvas/canvas-object.svelte: the pointer handlers of the     *)
(* node component, outside link mode.  drag holds the component's state    *)
(* while a gesture is under way: isDragging or isResizing, the node,       *)
(* nodeStart, currentSnap, hasUnlockedDuringDrag, resizeStart.  An event   *)
(* is given by the dx and dy the handler computes from it.                 *)
(***************************************************************************)
isDragging(s) == s.drag # <<>> /\ s.drag[1].kind = "move"
isResizing(s) == s.drag # <<>> /\ s.drag[1].kind = "resize"
NodeOf(s, id) == nodes(s)[findIndex(nodes(s), id)]

handleMouseDown(s, id, multiSelect) ==
    LET s1 == IF multiSelect THEN toggleSelection(s, id)
              ELSE IF ~includes(s.selection, id) THEN selectOnly(s, id)
              ELSE s
        node == NodeOf(s, id)
    IN  [s1 EXCEPT !.drag = <<[kind |-> "move", node |-> id,
                               nodeStart |-> [x |-> node.x, y |-> node.y],
                               currentSnap |-> <<>>,
                               hasUnlockedDuringDrag |-> FALSE]>>]

\* The single node drag of handleMouseMove.
dragSingle(s, dx, dy) ==
    LET id == s.drag[1].node
        node == NodeOf(s, id)
        otherNodes == SelectSeq(nodes(s), LAMBDA n : n.id # id)
        x0 == s.drag[1].nodeStart.x + dx
        y0 == s.drag[1].nodeStart.y + dy
        alignment == calculateAlignments(
                        [x |-> x0, y |-> y0, width |-> node.width, height |-> node.height],
                        otherNodes, SNAP_THRESHOLD)
        x1 == IF alignment.snapX # <<>> THEN alignment.snapX[1] ELSE x0
        y1 == IF alignment.snapY # <<>> THEN alignment.snapY[1] ELSE y0
        s1 == IF Len(alignment.guides.vertical) > 0 \/ Len(alignment.guides.horizontal) > 0
              THEN setAlignmentGuides(s, alignment.guides)
              ELSE clearAlignmentGuides(s)
        tempNode == Spread(node, [x |-> x1, y |-> y1])
        snap == detectEdgeSnap(tempNode, otherNodes, SNAP_THRESHOLD)
        newX == IF snap # <<>> THEN snap[1].snapX ELSE x1
        newY == IF snap # <<>> THEN snap[1].snapY ELSE y1
        s2 == IF snap # <<>>
              THEN setPendingSnapTarget(s1, snap[1].targetNode.id, snap[1].targetSide)
              ELSE clearPendingSnapTarget(s1)
        s3 == [s2 EXCEPT !.drag[1].currentSnap = snap]
    IN  moveNodeL(s3, id, newX, newY)

handleMouseMove(s, dx, dy, altKey) ==
    IF ~isDragging(s) THEN s
    ELSE LET id == s.drag[1].node
             unlock == altKey /\ Len(getLockedCluster(s, id)) > 1
                       /\ ~s.drag[1].hasUnlockedDuringDrag
             s1 == IF unlock
                   THEN [removeLocksForNode(s, id) EXCEPT
                            !.drag[1].hasUnlockedDuringDrag = TRUE]
                   ELSE s
             lockedCluster == getLockedCluster(s1, id)
         IN  IF includes(s1.selection, id) /\ Len(s1.selection) > 1
             THEN [clearAlignmentGuides(moveSelectedNodesL(s1, dx, dy))
                      EXCEPT !.drag[1].currentSnap = <<>>]
             ELSE IF Len(lockedCluster) > 1 /\ ~s1.drag[1].hasUnlockedDuringDrag
             THEN [clearAlignmentGuides(translateEach(s1, lockedCluster, dx, dy))
                      EXCEPT !.drag[1].currentSnap = <<>>]
             ELSE dragSingle(s1, dx, dy)

handleMouseUp(s) ==
    LET currentSnap == s.drag[1].currentSnap
        s1 == IF currentSnap # <<>>
              THEN addLock(s, s.drag[1].node, currentSnap[1].draggedSide,
                           currentSnap[1].targetNode.id, currentSnap[1].targetSide).store
              ELSE s
    IN  clearAlignmentGuides(clearPendingSnapTarget([s1 EXCEPT !.drag = <<>>]))

handleResizeMouseDown(s, id) ==
    [s EXCEPT !.drag = <<[kind |-> "resize", node |-> id,
                          resizeStart |-> [width |-> NodeOf(s, id).width,
                                           height |-> NodeOf(s, id).height]]>>]

handleResizeMouseMove(s, dx, dy) ==
    IF ~isResizing(s) THEN s
    ELSE LET newWidth == Max(MIN_WIDTH, s.drag[1].resizeStart.width + dx)
             newHeight == Max(MIN_HEIGHT, s.drag[1].resizeStart.height + dy)
         IN  resizeNodeL(s, s.drag[1].node, newWidth, newHeight)

handleResizeMouseUp(s) == [s EXCEPT !.drag = <<>>]

(***************************************************************************)
(* The documents a session starts from (init() loads them from storage),   *)
(* and the arguments the commands are called with.                         *)
(***************************************************************************)
SampleDoc ==
    [nodes |-> <<createTextNode(1, 0, 0, ""), createTextNode(2, 300, 0, "")>>,
     edges |-> <<createEdge(3, 1, 2)>>,
     xlocks |-> <<>>]

OtherDoc ==
    [nodes |-> <<createTextNode(4, 0, 0, "")>>, edges |-> <<>>, xlocks |-> <<>>]

\* init(): the loaded canvases, the first one active, nothing selected.
InitStore ==
    [canvases |-> [c \in {"c1", "c2"} |-> IF c = "c1" THEN SampleDoc ELSE OtherDoc],
     activeCanvasId |-> "c1",
     selection |-> <<>>,
     history |-> <<>>,
     inTransaction |-> FALSE,
     nextId |-> 5,
     saveTimer |-> <<>>,
     tagFilters |-> <<>>,
     searchTerm |-> <<>>,
     alignmentGuides |-> <<>>,
     pendingSnapTarget |-> <<>>,
     drag |-> <<>>,
     drop |-> <<>>,
     isLinkMode |-> FALSE,
     linkSource |-> 0,
     now |-> 0,
     writes |-> <<>>]

\* A session that starts with the store s.
Start(s) ==
    /\ canvases = s.canvases
    /\ activeCanvasId = s.activeCanvasId
    /\ selection = s.selection
    /\ history = s.history
    /\ inTransaction = s.inTransaction
    /\ nextId = s.nextId
    /\ saveTimer = s.saveTimer
    /\ tagFilters = s.tagFilters
    /\ searchTerm = s.searchTerm
    /\ alignmentGuides = s.alignmentGuides
    /\ pendingSnapTarget = s.pendingSnapTarget
    /\ drag = s.drag
    /\ drop = s.drop
    /\ isLinkMode = s.isLinkMode
    /\ linkSource = s.linkSource
    /\ now = s.now
    /\ writes = s.writes
    /\ trace = <<>>
    /\ prev = s
    /\ filled = 0
    /\ base = s

Init == Start(InitStore)

\* Ids that name no node, no edge and no lock: what a caller holds after the
\* thing it names was deleted.
StaleIds == {0}

\* Node ids a command is aimed at: the first node of the document, or none.
TargetNodes(s) ==
    StaleIds \cup (IF nodes(s) = <<>> THEN {} ELSE {nodes(s)[1].id})

\* Every node of the document, or none.
AnyNode(s) == StaleIds \cup Ids(nodes(s))

TargetEdges(s) ==
    StaleIds \cup (IF edges(s) = <<>> THEN {} ELSE {edges(s)[1].id})

Deltas == {5, -5}
ColorUpdates == {[color |-> "1"], [color |-> Undefined]}

\* The position of a node, (0, 0) for an id that names none.
PosOf(s, id) ==
    LET i == findIndex(nodes(s), id)
    IN  IF i = 0 THEN [x |-> 0, y |-> 0] ELSE [x |-> nodes(s)[i].x, y |-> nodes(s)[i].y]

\* Whether a structural command gets as far as pushSnapshot.
ReachesPush(s, c) ==
    CASE c.op \in {"addTextNode", "addGroupNode", "deleteNode", "addEdge", "deleteEdge"}
            -> HasActive(s)
      [] c.op \in {"moveNode", "resizeNode", "updateNode"}
            -> findIndex(nodes(s), c.id) # 0
      [] c.op = "updateEdge" -> findIndex(edges(s), c.id) # 0
      [] c.op = "createGroupFromSelection" -> Len(selectedNodes(s)) > 0
      [] OTHER -> FALSE

\* One command: the store becomes t, the observations are updated.
Step(c, t) ==
    /\ Apply(t)
    /\ trace' = Append(trace, [c EXCEPT !.pushes = ReachesPush(St, c)])
    /\ prev' = St
    /\ base' = IF trace = <<>> THEN St ELSE base
    /\ UNCHANGED filled

Cmd(op) == [op |-> op, id |-> 0, pushes |-> FALSE]
CmdId(op, id) == [op |-> op, id |-> id, pushes |-> FALSE]

(***************************************************************************)
(* Actions: one per store method.  budget is the number of commands the    *)
(* session may still hold.                                                 *)
(***************************************************************************)
AddTextNode(budget) ==
    /\ Len(trace) < budget
    /\ Step(Cmd("addTextNode"), addTextNode(St, 0, 0, ""))

AddGroupNode(budget) ==
    /\ Len(trace) < budget
    /\ Step(Cmd("addGroupNode"), addGroupNode(St, 10, 10, Undefined))

MoveNode(budget) ==
    /\ Len(trace) < budget
    /\ \E id \in TargetNodes(St), d \in Deltas :
          Step(CmdId("moveNode", id),
               moveNode(St, id, PosOf(St, id).x + d, PosOf(St, id).y + d))

ResizeNode(budget) ==
    /\ Len(trace) < budget
    /\ \E id \in TargetNodes(St) :
          Step(CmdId("resizeNode", id), resizeNode(St, id, 120, 80))

UpdateNode(budget) ==
    /\ Len(trace) < budget
    /\ \E id \in TargetNodes(St), updates \in ColorUpdates :
          Step(CmdId("updateNode", id), updateNode(St, id, updates))

DeleteNode(budget) ==
    /\ Len(trace) < budget
    /\ \E id \in TargetNodes(St) :
          Step(CmdId("deleteNode", id), deleteNode(St, id))

AddEdge(budget) ==
    /\ Len(trace) < budget
    /\ Len(nodes(St)) >= 2
    /\ Step(Cmd("addEdge"),
            addEdge(St, nodes(St)[Len(nodes(St))].id, nodes(St)[1].id))

UpdateEdge(budget) ==
    /\ Len(trace) < budget
    /\ \E id \in TargetEdges(St) :
          Step(CmdId("updateEdge", id), updateEdge(St, id, [label |-> "L"]))

DeleteEdge(budget) ==
    /\ Len(trace) < budget
    /\ \E id \in TargetEdges(St) :
          Step(CmdId("deleteEdge", id), deleteEdge(St, id))

CreateGroupFromSelection(budget) ==
    /\ Len(trace) < budget
    /\ Step(Cmd("createGroupFromSelection"), createGroupFromSelection(St, Undefined))

DeleteSelectedNodes(budget) ==
    /\ Len(trace) < budget
    /\ Step(Cmd("deleteSelectedNodes"), deleteSelectedNodes(St))

BeginTransaction(budget) ==
    /\ Len(trace) < budget
    /\ Step(Cmd("beginTransaction"), beginTransaction(St))

EndTransaction(budget) ==
    /\ Len(trace) < budget
    /\ Step(Cmd("endTransaction"), endTransaction(St))

Undo(budget) ==
    /\ Len(trace) < budget
    /\ Step(Cmd("undo"), undo(St))

Redo(budget) ==
    /\ Len(trace) < budget
    /\ Step(Cmd("redo"), redo(St))

SwitchCanvas(budget) ==
    /\ Len(trace) < budget
    /\ \E id \in {"c1", "c2", "c9"} :
          Step(Cmd("switchCanvas"), switchCanvas(St, id))

Select(budget, ids) ==
    /\ Len(trace) < budget
    /\ \E id \in ids : Step(CmdId("select", id), select(St, id))

Deselect(budget) ==
    /\ Len(trace) < budget
    /\ \E id \in AnyNode(St) : Step(CmdId("deselect", id), deselect(St, id))

ToggleSelection(budget) ==
    /\ Len(trace) < budget
    /\ \E id \in AnyNode(St) :
          Step(CmdId("toggleSelection", id), toggleSelection(St, id))

SelectOnly(budget) ==
    /\ Len(trace) < budget
    /\ \E id \in AnyNode(St) : Step(CmdId("selectOnly", id), selectOnly(St, id))

SelectAll(budget) ==
    /\ Len(trace) < budget
    /\ Step(Cmd("selectAll"), selectAll(St))

ClearSelection(budget) ==
    /\ Len(trace) < budget
    /\ Step(Cmd("clearSelection"), clearSelection(St))

\* setSelection with the ids a box selection covers: a part of the nodes.
SetSelection(budget) ==
    /\ Len(trace) < budget
    /\ \E n \in 0..Len(nodes(St)) :
          Step(Cmd("setSelection"),
               setSelection(St, [i \in 1..n |-> nodes(St)[i].id]))

(***************************************************************************)
(* Spec: a fresh session of the store with history, every structural       *)
(* command, transactions, undo and redo.                                   *)
(***************************************************************************)
Next ==
    \/ AddTextNode(MaxOps)
    \/ AddGroupNode(MaxOps)
    \/ MoveNode(MaxOps)
    \/ ResizeNode(MaxOps)
    \/ UpdateNode(MaxOps)
    \/ DeleteNode(MaxOps)
    \/ AddEdge(MaxOps)
    \/ UpdateEdge(MaxOps)
    \/ DeleteEdge(MaxOps)
    \/ Select(MaxOps, TargetNodes(St))
    \/ CreateGroupFromSelection(MaxOps)
    \/ BeginTransaction(MaxOps)
    \/ EndTransaction(MaxOps)
    \/ Undo(MaxOps)
    \/ Redo(MaxOps)

Spec == Init /\ [][Next]_vars

(***************************************************************************)
(* SpecCap: a long session.  Its first part is a run of independent        *)
(* mutations, each moving node 1 to a position it never had; commands of   *)
(* every kind follow once the history holds 29 or 30 entries.              *)
(***************************************************************************)
Fill ==
    /\ trace = <<>>
    /\ filled < MaxFill
    /\ Apply(moveNode(St, 1, filled + 1, 0))
    /\ filled' = filled + 1
    /\ prev' = St
    /\ UNCHANGED <<trace, base>>

CapBudget == IF filled \in {HISTORY_LIMIT - 1, HISTORY_LIMIT} THEN MaxCapOps ELSE 0

NextCap ==
    \/ Fill
    \/ AddTextNode(CapBudget)
    \/ MoveNode(CapBudget)
    \/ DeleteNode(CapBudget)
    \/ UpdateEdge(CapBudget)
    \/ Select(CapBudget, TargetNodes(St))
    \/ CreateGroupFromSelection(CapBudget)
    \/ BeginTransaction(CapBudget)
    \/ EndTransaction(CapBudget)
    \/ Undo(CapBudget)
    \/ Redo(CapBudget)

SpecCap == Init /\ [][NextCap]_vars

(***************************************************************************)
(* SpecSel: the selection commands together with everything that removes   *)
(* nodes or changes the active canvas.                                     *)
(***************************************************************************)
NextSel ==
    \/ Select(MaxSelOps, AnyNode(St))
    \/ Deselect(MaxSelOps)
    \/ ToggleSelection(MaxSelOps)
    \/ SelectOnly(MaxSelOps)
    \/ SelectAll(MaxSelOps)
    \/ ClearSelection(MaxSelOps)
    \/ SetSelection(MaxSelOps)
    \/ AddTextNode(MaxSelOps)
    \/ DeleteNode(MaxSelOps)
    \/ DeleteSelectedNodes(MaxSelOps)
    \/ CreateGroupFromSelection(MaxSelOps)
    \/ SwitchCanvas(MaxSelOps)
    \/ Undo(MaxSelOps)
    \/ Redo(MaxSelOps)

SpecSel == Init /\ [][NextSel]_vars

(***************************************************************************)
(* SpecLock: a session of the store with locks.                            *)
(***************************************************************************)
LockSides == {"left", "right"}
LockNodes == {1, 2}

CmdLock(nodeA, sideA, nodeB, sideB, result) ==
    [op |-> "addLock", id |-> 0, pushes |-> FALSE,
     nodeA |-> nodeA, sideA |-> sideA, nodeB |-> nodeB, sideB |-> sideB,
     result |-> result]

AddLock ==
    /\ Len(trace) < MaxLockOps
    /\ \E nodeA \in LockNodes, nodeB \in LockNodes, sideA \in LockSides, sideB \in LockSides :
          /\ nodeA # nodeB
          /\ LET r == addLock(St, nodeA, sideA, nodeB, sideB)
             IN  Step(CmdLock(nodeA, sideA, nodeB, sideB, r.result), r.store)

RemoveLock ==
    /\ Len(trace) < MaxLockOps
    /\ \E id \in StaleIds \cup Ids(locks(St)) :
          Step(CmdId("removeLock", id), removeLock(St, id))

RemoveLocksForNode ==
    /\ Len(trace) < MaxLockOps
    /\ \E id \in LockNodes :
          Step(CmdId("removeLocksForNode", id), removeLocksForNode(St, id))

DeleteNodeL ==
    /\ Len(trace) < MaxLockOps
    /\ \E id \in StaleIds \cup LockNodes :
          Step(CmdId("deleteNode", id), deleteNodeL(St, id))

NextLock ==
    \/ AddLock
    \/ RemoveLock
    \/ RemoveLocksForNode
    \/ DeleteNodeL
    \/ Select(MaxLockOps, LockNodes)

SpecLock == Init /\ [][NextLock]_vars

(***************************************************************************)
(* What the properties below read off a state.                             *)
(***************************************************************************)
StructuralOps ==
    {"addTextNode", "addGroupNode", "moveNode", "resizeNode", "updateNode",
     "deleteNode", "addEdge", "updateEdge", "deleteEdge", "createGroupFromSelection"}

Last == trace[Len(trace)]
AllStructural == \A i \in 1..Len(trace) : trace[i].op \in StructuralOps
Pushed == Cardinality({i \in 1..Len(trace) : trace[i].pushes})

\* Nodes and edges as a reader sees them: same ids, field values and order.
View(s) == JsonClone(Content(s))
UndoStack(s) == historyOf(s).undoStack
RedoStack(s) == historyOf(s).redoStack

RECURSIVE undoN(_, _)
\* undo called n times (undo leaves inTransaction alone: the test has each
\* call evaluated before the next).
undoN(s, n) ==
    IF n = 0 THEN s
    ELSE LET t == undo(s)
         IN  IF t.inTransaction = s.inTransaction THEN undoN(t, n - 1) ELSE t

(***************************************************************************)
(* C1, as stated: after a sequence M of structural mutations outside a     *)
(* transaction, undo called |M| times restores the nodes and edges that    *)
(* preceded M.  M is the run of independent mutations that opens the long  *)
(* session, or the commands that follow it when all are structural.        *)
(***************************************************************************)
C1_UndoLenRestores ==
    /\ (trace = <<>> => View(undoN(St, filled)) = View(InitStore))
    /\ (trace # <<>> /\ AllStructural /\ ~base.inTransaction
           => View(undoN(St, Len(trace))) = View(base))

(***************************************************************************)
(* C1, amended: undo called once for each snapshot M pushed (one for each  *)
(* mutation that found its target), when M pushed at most HISTORY_LIMIT of *)
(* them, restores the nodes and edges that preceded M.                     *)
(***************************************************************************)
C1_UndoPerSnapshotRestores ==
    /\ (trace = <<>> /\ filled <= HISTORY_LIMIT
           => View(undoN(St, filled)) = View(InitStore))
    /\ (trace # <<>> /\ AllStructural /\ ~base.inTransaction /\ Pushed <= HISTORY_LIMIT
           => View(undoN(St, Pushed)) = View(base))

\* M mixes mutations that found their target with ones that did not, over a
\* history that already held entries, and the undos bring the document back.
C1_Witness ==
    /\ Len(trace) >= 2
    /\ AllStructural
    /\ Pushed >= 1
    /\ Pushed < Len(trace)
    /\ Len(UndoStack(base)) >= 1
    /\ View(St) # View(base)
    /\ View(undoN(St, Pushed)) = View(base)

(***************************************************************************)
(* C2: in every reachable state whose undo stack is non-empty, undo        *)
(* followed at once by redo leaves the nodes, the edges, the undo stack    *)
(* and the redo stack of the active document as they were.                 *)
(***************************************************************************)
C2_UndoRedoRoundTrip ==
    Len(UndoStack(St)) > 0 =>
        LET t == redo(undo(St))
        IN  /\ View(t) = View(St)
            /\ UndoStack(t) = UndoStack(St)
            /\ RedoStack(t) = RedoStack(St)

\* The session ends with an undo and a redo that both changed the document,
\* and the round trip from the state reached is still the identity.
C2_Witness ==
    /\ Len(trace) >= 3
    /\ Last.op = "redo"
    /\ trace[Len(trace) - 1].op = "undo"
    /\ View(St) # View(prev)
    /\ Len(UndoStack(St)) > 0
    /\ View(redo(undo(St))) = View(St)
    /\ UndoStack(redo(undo(St))) = UndoStack(St)

(***************************************************************************)
(* Transactions.  The session is one transaction when its commands are     *)
(* beginTransaction, k >= 1 structural mutations and endTransaction.       *)
(***************************************************************************)
IsTransaction ==
    /\ Len(trace) >= 3
    /\ ~base.inTransaction
    /\ trace[1].op = "beginTransaction"
    /\ Last.op = "endTransaction"
    /\ \A i \in 2..(Len(trace) - 1) : trace[i].op \in StructuralOps

\* A snapshot pushed on a stack, the oldest entry evicted past the limit.
PushCapped(stack, snapshot) ==
    IF Len(stack) + 1 > HISTORY_LIMIT
    THEN Tail(Append(stack, snapshot)) ELSE Append(stack, snapshot)

NetZeroTransaction(s, id) ==
    LET p == PosOf(s, id)
        s1 == beginTransaction(s)
        s2 == moveNode(s1, id, p.x + 5, p.y + 5)
        s3 == moveNode(s2, id, p.x, p.y)
    IN  endTransaction(s3)

C4_NetZeroLeavesUndoStack ==
    ~inTransaction =>
        \A id \in Ids(nodes(St)) :
            LET t == NetZeroTransaction(St, id)
            IN  View(t) = View(St) => UndoStack(t) = UndoStack(St)

(***************************************************************************)
(* C5: the undo stack of every document holds at most HISTORY_LIMIT        *)
(* snapshots, and after n independent mutations from an empty history it   *)
(* holds the pre-states of the last min(n, HISTORY_LIMIT) of them in       *)
(* order: of mutations 6 to 35 after 35.                                   *)
(***************************************************************************)
\* The document before the j-th mutation of the long session.
PreStateOf(j) == View(moveNode(InitStore, 1, j - 1, 0))

C5_HistoryCap ==
    /\ \A c \in DOMAIN history : Len(history[c].undoStack) <= HISTORY_LIMIT
    /\ trace = <<>> =>
          LET n == Len(UndoStack(St))
          IN  /\ n = Min(filled, HISTORY_LIMIT)
              /\ \A i \in 1..n : UndoStack(St)[i] = PreStateOf(filled - n + i)

C5_Witness ==
    /\ trace = <<>>
    /\ filled = 35
    /\ Len(UndoStack(St)) = 30
    /\ UndoStack(St)[1] = PreStateOf(6)
    /\ UndoStack(St)[30] = PreStateOf(35)

(***************************************************************************)
(* C6, as stated: outside a transaction every structural mutation command  *)
(* pushes exactly one snapshot on the undo stack of the active document,   *)
(* equal to the nodes and edges as they were before the command.           *)
(***************************************************************************)
C6_EveryCommandPushes ==
    trace # <<>> /\ Last.op \in StructuralOps /\ ~prev.inTransaction =>
        UndoStack(St) = PushCapped(UndoStack(prev), View(prev))

(***************************************************************************)
(* C6, amended: outside a transaction a structural mutation command that   *)
(* finds its target (updateNode, moveNode and resizeNode an existing node, *)
(* updateEdge an existing edge, createGroupFromSelection a selected node   *)
(* that exists; every other command always) pushes exactly one snapshot,   *)
(* equal to the nodes and edges before the command; a command that does    *)
(* not find its target leaves history and document alone.                  *)
(***************************************************************************)
C6_CommandWithTargetPushes ==
    trace # <<>> /\ Last.op \in StructuralOps /\ ~prev.inTransaction =>
        IF Last.pushes
        THEN UndoStack(St) = PushCapped(UndoStack(prev), View(prev))
        ELSE /\ UndoStack(St) = UndoStack(prev)
             /\ RedoStack(St) = RedoStack(prev)
             /\ Content(St) = Content(prev)

\* A command changed an existing node of a document whose history already
\* held an entry, and the entry it pushed is the document before it.
C6_Witness ==
    /\ trace # <<>>
    /\ Last.op \in {"updateNode", "createGroupFromSelection"}
    /\ Last.pushes
    /\ ~prev.inTransaction
    /\ Len(UndoStack(prev)) >= 1
    /\ View(St) # View(prev)
    /\ UndoStack(St) = Append(UndoStack(prev), View(prev))

(***************************************************************************)
(* C7, as stated: right after a structural mutation that changed the nodes *)
(* or edges of the active document, the redo stack of that document is     *)
(* empty, whatever the state the mutation was issued in.                   *)
(***************************************************************************)
C7_MutationClearsRedo ==
    trace # <<>> /\ Last.op \in StructuralOps /\ View(St) # View(prev) =>
        RedoStack(St) = <<>>

(***************************************************************************)
(* C8: in the state right after deleteNode(id), no edge starts or ends at  *)
(* id, no lock joins id and the selection does not hold id.                *)
(***************************************************************************)
C8_DeleteNodeLeavesNoReference ==
    trace # <<>> /\ Last.op = "deleteNode" =>
        /\ \A i \in 1..Len(edges(St)) :
              edges(St)[i].fromNode # Last.id /\ edges(St)[i].toNode # Last.id
        /\ \A i \in 1..Len(locks(St)) :
              locks(St)[i].nodeA # Last.id /\ locks(St)[i].nodeB # Last.id
        /\ ~includes(selection, Last.id)

\* The node deleted had an edge, a lock and a place in the selection.
C8_Witness ==
    /\ trace # <<>>
    /\ Last.op = "deleteNode"
    /\ \E i \in 1..Len(edges(prev)) :
          edges(prev)[i].fromNode = Last.id \/ edges(prev)[i].toNode = Last.id
    /\ \E i \in 1..Len(locks(prev)) :
          locks(prev)[i].nodeA = Last.id \/ locks(prev)[i].nodeB = Last.id
    /\ includes(prev.selection, Last.id)
    /\ Len(edges(St)) < Len(edges(prev))
    /\ Len(locks(St)) < Len(locks(prev))
    /\ Len(selection) < Len(prev.selection)

(***************************************************************************)
(* C9, as stated: in every reachable state every id of the selection is    *)
(* the id of a node of the active document.                                *)
(***************************************************************************)
C9_SelectionNamesNodes ==
    \A i \in 1..Len(selection) : selection[i] \in Ids(nodes(St))

(***************************************************************************)
(* C10: the lock list never holds two locks joining the same unordered     *)
(* pair of (node, side) endpoints, and addLock for a pair already locked,  *)
(* in either direction, returns null and leaves the lock list as it was.   *)
(***************************************************************************)
Endpoints(l) == {<<l.nodeA, l.sideA>>, <<l.nodeB, l.sideB>>}

C10_NoDuplicateLock ==
    /\ \A i, j \in 1..Len(locks(St)) :
          i # j => Endpoints(locks(St)[i]) # Endpoints(locks(St)[j])
    /\ trace # <<>> /\ Last.op = "addLock"
          /\ (\E i \in 1..Len(locks(prev)) : Endpoints(locks(prev)[i]) = Endpoints(Last))
          => Last.result = <<>> /\ locks(St) = locks(prev)

\* addLock was refused for a pair locked in the opposite direction.
C10_Witness ==
    /\ trace # <<>>
    /\ Last.op = "addLock"
    /\ Last.result = <<>>
    /\ locks(St) = locks(prev)
    /\ \E i \in 1..Len(locks(prev)) :
          /\ Endpoints(locks(prev)[i]) = Endpoints(Last)
          /\ locks(prev)[i].nodeA = Last.nodeB

(***************************************************************************)
(* SpecCluster: getLockedCluster read on every lock list of up to MaxLocks *)
(* locks among three nodes, as a canvas file loaded from storage may hold  *)
(* it: pairs locked twice, in both directions, and a node locked to        *)
(* itself included.                                                        *)
(***************************************************************************)
ClusterNodes == {1, 2, 3}

ClusterDoc ==
    [nodes |-> <<createTextNode(1, 0, 0, ""), createTextNode(2, 200, 0, ""),
                 createTextNode(3, 400, 0, "")>>,
     edges |-> <<>>,
     xlocks |-> <<>>]

\* The lock lists: the i-th lock has id 10 + i and joins a right side to a
\* left side.
LockLists ==
    UNION {{[i \in 1..n |-> [id |-> 10 + i, nodeA |-> f[i][1], sideA |-> "right",
                             nodeB |-> f[i][2], sideB |-> "left"]] :
              f \in [1..n -> ClusterNodes \X ClusterNodes]} : n \in 0..MaxLocks}

\* The store after init() loaded the one canvas c.
Loaded(c) == [InitStore EXCEPT !.canvases = [k \in {"c1"} |-> c], !.nextId = 20]

InitCluster ==
    \E ls \in LockLists : Start(Loaded([ClusterDoc EXCEPT !.xlocks = <<ls>>]))

GetLockedCluster ==
    /\ trace = <<>>
    /\ \E id \in ClusterNodes :
          Step([op |-> "getLockedCluster", id |-> id, pushes |-> FALSE,
                result |-> getLockedCluster(St, id)], St)

NextCluster == GetLockedCluster

SpecCluster == InitCluster /\ [][NextCluster]_vars

(***************************************************************************)
(* C11: on every lock list getLockedCluster is an equivalence on node ids  *)
(* (A in cluster(A); B in cluster(A) gives A in cluster(B); B in           *)
(* cluster(A) and C in cluster(B) give C in cluster(A)), and cluster(A) is *)
(* the set of ids joined to A by a path of locks, each id listed once.     *)
(***************************************************************************)
\* The ids one lock away from a set of ids.
Neighbours(S) ==
    {locks(St)[i].nodeB : i \in {j \in 1..Len(locks(St)) : locks(St)[j].nodeA \in S}}
    \cup {locks(St)[i].nodeA : i \in {j \in 1..Len(locks(St)) : locks(St)[j].nodeB \in S}}

\* The ids joined to the ids of S by a path of locks.
RECURSIVE Connected(_)
Connected(S) == IF Neighbours(S) \subseteq S THEN S ELSE Connected(S \cup Neighbours(S))

Cluster(A) == Range(getLockedCluster(St, A))

C11_ClusterIsEquivalence ==
    \A A \in ClusterNodes :
        /\ A \in Cluster(A)
        /\ \A B \in Cluster(A) : A \in Cluster(B)
        /\ \A B \in Cluster(A) : \A C \in Cluster(B) : C \in Cluster(A)
        /\ Cluster(A) = Connected({A})
        /\ Cardinality(Cluster(A)) = Len(getLockedCluster(St, A))

\* A cluster of three read through a chain: the id asked for is locked to a
\* second node, that one to a third, and no lock joins the first and third.
C11_Witness ==
    /\ trace # <<>>
    /\ Last.op = "getLockedCluster"
    /\ Len(Last.result) = 3
    /\ Range(Last.result) = Connected({Last.id})
    /\ \A i \in 1..Len(locks(St)) :
          /\ locks(St)[i].nodeA # locks(St)[i].nodeB
          /\ {locks(St)[i].nodeA, locks(St)[i].nodeB} # {Last.result[1], Last.result[3]}

(***************************************************************************)
(* SpecMove: nodes moved by the store commands and by the drag of the node *)
(* component, over documents loaded with up to two locks.                  *)
(***************************************************************************)
MoveLockLists ==
    {ls \in LockLists : /\ Len(ls) <= 2
                        /\ \A i \in 1..Len(ls) : ls[i].nodeA < ls[i].nodeB}

\* (dx, dy) of a pointer event or a command: within the snap threshold, and
\* beyond it.
MoveDeltas == {<<5, 5>>, <<30, 0>>}

InitMove ==
    \E ls \in MoveLockLists : Start(Loaded([ClusterDoc EXCEPT !.xlocks = <<ls>>]))

MoveNodeL ==
    /\ Len(trace) < MaxMoveOps
    /\ drag = <<>>
    /\ \E id \in StaleIds \cup ClusterNodes, d \in MoveDeltas :
          Step(CmdId("moveNode", id),
               moveNodeL(St, id, PosOf(St, id).x + d[1], PosOf(St, id).y + d[2]))

MoveSelectedNodesL ==
    /\ Len(trace) < MaxMoveOps
    /\ drag = <<>>
    /\ \E d \in MoveDeltas :
          Step(Cmd("moveSelectedNodes"), moveSelectedNodesL(St, d[1], d[2]))

HandleMouseDown ==
    /\ Len(trace) < MaxMoveOps
    /\ drag = <<>>
    /\ \E id \in Ids(nodes(St)), multiSelect \in BOOLEAN :
          Step(CmdId("handleMouseDown", id), handleMouseDown(St, id, multiSelect))

HandleMouseMove ==
    /\ Len(trace) < MaxMoveOps
    /\ isDragging(St)
    /\ \E d \in MoveDeltas, altKey \in BOOLEAN :
          Step(CmdId("handleMouseMove", drag[1].node),
               handleMouseMove(St, d[1], d[2], altKey))

HandleMouseUp ==
    /\ Len(trace) < MaxMoveOps
    /\ isDragging(St)
    /\ Step(CmdId("handleMouseUp", drag[1].node), handleMouseUp(St))

NextMove ==
    \/ MoveNodeL
    \/ MoveSelectedNodesL
    \/ HandleMouseDown
    \/ HandleMouseMove
    \/ HandleMouseUp

SpecMove == InitMove /\ [][NextMove]_vars

(***************************************************************************)
(* C12, as stated: a command or drag frame that translates a member of a   *)
(* locked cluster (moveNode, moveSelectedNodes, a frame of the node drag)  *)
(* translates every member of the cluster by the same (dx, dy).            *)
(***************************************************************************)
Translation(id) ==
    [dx |-> PosOf(St, id).x - PosOf(prev, id).x,
     dy |-> PosOf(St, id).y - PosOf(prev, id).y]

C12_ClusterMovesTogether ==
    trace # <<>> /\ Last.op \in {"moveNode", "moveSelectedNodes", "handleMouseMove"} =>
        \A A \in Ids(nodes(St)) :
            Translation(A) # [dx |-> 0, dy |-> 0] =>
                \A B \in Range(getLockedCluster(St, A)) \cap Ids(nodes(St)) :
                    Translation(B) = Translation(A)

(***************************************************************************)
(* Strings the filters look into.  A string whose characters matter is the *)
(* sequence of its characters: '' is <<>>, '#a b' is <<"#","a"," ","b">>.  *)
(***************************************************************************)
LowerCase == <<"a", "b", "c">>
UpperCase == <<"A", "B", "C">>
Digits == {"0", "1", "2"}

isUpper(c) == \E i \in DOMAIN UpperCase : UpperCase[i] = c
isLetter(c) == isUpper(c) \/ \E i \in DOMAIN LowerCase : LowerCase[i] = c

\* [a-zA-Z0-9_-]
isTagChar(c) == isLetter(c) \/ c \in Digits \/ c \in {"_", "-"}

\* String.prototype.toLowerCase
toLowerCase(str) ==
    [i \in DOMAIN str |->
        IF isUpper(str[i])
        THEN LowerCase[CHOOSE k \in DOMAIN UpperCase : UpperCase[k] = str[i]]
        ELSE str[i]]

\* String.prototype.includes
stringIncludes(str, part) ==
    \E i \in 0..(Len(str) - Len(part)) : SubSeq(str, i + 1, i + Len(part)) = part

(***************************************************************************)
(* utils/hashtags.ts                                                       *)
(***************************************************************************)
\* The last position of the run of [a-zA-Z0-9_-] that starts at position i
\* (i - 1 when the run is empty): the greedy star of the pattern.
RECURSIVE runEnd(_, _)
runEnd(text, i) ==
    IF i <= Len(text) /\ isTagChar(text[i]) THEN runEnd(text, i + 1) ELSE i - 1

\* while ((match = regex.exec(text)) !== null) tags.push(match[1].toLowerCase())
\* for /#([a-zA-Z][a-zA-Z0-9_-]*)/g, scanning on from position i.
RECURSIVE execLoop(_, _, _)
execLoop(text, i, tags) ==
    IF i > Len(text) THEN tags
    ELSE IF text[i] = "#" /\ i + 1 <= Len(text) /\ isLetter(text[i + 1])
         THEN LET last == runEnd(text, i + 1)
              IN  execLoop(text, last + 1,
                           Append(tags, toLowerCase(SubSeq(text, i + 1, last))))
         ELSE execLoop(text, i + 1, tags)

extractHashtags(text) == dedupe(execLoop(text, 1, <<>>), <<>>)

(***************************************************************************)
(* CanvasStore: what is shown under the tag filters and the search term.   *)
(***************************************************************************)
isTextNode(node) == node.type = "text"
isLinkNode(node) == node.type = "link"

\* The tag-filter part with OR logic: one filtered tag is enough.
passesTagFiltersAny(s, node) ==
    IF Len(s.tagFilters) > 0
    THEN IF isTextNode(node)
         THEN LET nodeTags == extractHashtags(node.text)
              IN  \E i \in DOMAIN s.tagFilters : includes(nodeTags, s.tagFilters[i])
         ELSE isLinkNode(node)
    ELSE TRUE

\* The tag-filter part of the visibleNodes predicate.
passesTagFilters(s, node) ==
    IF Len(s.tagFilters) > 0
    THEN IF isTextNode(node)
         THEN LET nodeTags == extractHashtags(node.text)
              IN  \A i \in DOMAIN s.tagFilters : includes(nodeTags, s.tagFilters[i])
         ELSE isLinkNode(node)
    ELSE TRUE

\* The search-term part of the visibleNodes predicate.  node.label?. of a
\* group without a label is undefined, which hides the group.
passesSearchTerm(s, node) ==
    IF s.searchTerm # <<>>
    THEN LET searchLower == toLowerCase(s.searchTerm) IN
         IF isTextNode(node) THEN stringIncludes(toLowerCase(node.text), searchLower)
         ELSE IF isLinkNode(node) THEN stringIncludes(toLowerCase(node.url), searchLower)
         ELSE "label" \in DOMAIN node
              /\ stringIncludes(toLowerCase(node.label), searchLower)
    ELSE TRUE

\* array.filter(pred) for the visibleNodes predicate.
RECURSIVE filterVisible(_, _)
filterVisible(s, arr) ==
    IF arr = <<>> THEN <<>>
    ELSE IF passesTagFilters(s, Head(arr)) /\ passesSearchTerm(s, Head(arr))
         THEN <<Head(arr)>> \o filterVisible(s, Tail(arr))
         ELSE filterVisible(s, Tail(arr))

\* visibleNodes hiding the group nodes whether or not a tag filter is active.
visibleNodesNoGroups(s) ==
    FilterIn(filterVisible(s, nodes(s)),
             {n \in Range(nodes(s)) : isTextNode(n) \/ isLinkNode(n)})

visibleNodes(s) ==
    IF Len(s.tagFilters) = 0 /\ s.searchTerm = <<>> THEN nodes(s)
    ELSE filterVisible(s, nodes(s))

hiddenNodeIds(s) ==
    LET visible == Ids(visibleNodes(s))
    IN  {n.id : n \in {m \in Range(nodes(s)) : m.id \notin visible}}

\* for (const visibleId of validVisibleIds) for (const nodeId of cluster) ...
ghostNodeIds(s) ==
    LET validVisibleIds == Ids(visibleNodes(s))
        hiddenIds == hiddenNodeIds(s)
    IN  {nodeId \in UNION {Range(getLockedCluster(s, visibleId)) :
                              visibleId \in validVisibleIds} : nodeId \in hiddenIds}

\* array.filter(n => ids.has(n.id))
RECURSIVE filterIds(_, _)
filterIds(arr, ids) ==
    IF arr = <<>> THEN <<>>
    ELSE IF Head(arr).id \in ids THEN <<Head(arr)>> \o filterIds(Tail(arr), ids)
         ELSE filterIds(Tail(arr), ids)

\* renderableNodes showing the visible nodes only.
renderableNodesVisible(s) == filterIds(nodes(s), Ids(visibleNodes(s)))

renderableNodes(s) ==
    LET validVisibleIds == Ids(visibleNodes(s))
        ghostIds == ghostNodeIds(s)
    IN  filterIds(nodes(s), validVisibleIds \cup ghostIds)

addTagFilter(s, tag) ==
    LET normalizedTag == toLowerCase(tag)
    IN  IF ~includes(s.tagFilters, normalizedTag)
        THEN [s EXCEPT !.tagFilters = Append(@, normalizedTag)]
        ELSE s

removeTagFilter(s, tag) ==
    [s EXCEPT !.tagFilters = SelectSeq(@, LAMBDA t : t # toLowerCase(tag))]

setSearchTerm(s, term) == [s EXCEPT !.searchTerm = term]

clearFilters(s) == [s EXCEPT !.tagFilters = <<>>, !.searchTerm = <<>>]

(***************************************************************************)
(* Filter sessions: a loaded document of three nodes with some of them     *)
(* locked together, and the filter commands of the sidebar.                *)
(***************************************************************************)
MaxFilterOps == 2

\* What a node of the document may be: text nodes with the tags a, a and b,
\* ab and none; groups with and without a label; a link.
FilterNodes(id) ==
    {createTextNode(id, 0, 0, <<"#", "a">>),
     createTextNode(id, 0, 0, <<"#", "A", " ", "#", "b">>),
     createTextNode(id, 0, 0, <<"#", "a", "b">>),
     createTextNode(id, 0, 0, <<"b", "#", "1">>),
     createGroupNode(id, 0, 0, <<"A", "b">>),
     [id |-> id, type |-> "group", x |-> 0, y |-> 0,
      width |-> DEFAULT_NODE_WIDTH, height |-> DEFAULT_NODE_HEIGHT],
     [id |-> id, type |-> "link", x |-> 0, y |-> 0,
      width |-> DEFAULT_NODE_WIDTH, height |-> DEFAULT_NODE_HEIGHT,
      url |-> <<"a">>]}

\* The locks 1-2 and 2-3, each present or not.
FilterLockLists ==
    {ls \in MoveLockLists :
        /\ \A i \in 1..Len(ls) : ls[i].nodeB = ls[i].nodeA + 1
        /\ \A i, j \in 1..Len(ls) : i < j => ls[i].nodeA < ls[j].nodeA}

FilterTags == {<<"a">>, <<"B">>}
SearchTerms == {<<>>, <<"A">>}

\* The first node is a text node, the last one is not.
InitFilter ==
    \E n1 \in {n \in FilterNodes(1) : isTextNode(n)}, n2 \in FilterNodes(2),
       n3 \in {n \in FilterNodes(3) : ~isTextNode(n)}, ls \in FilterLockLists :
        Start(Loaded([nodes |-> <<n1, n2, n3>>, edges |-> <<>>, xlocks |-> <<ls>>]))

CmdFilter(op, arg) == [op |-> op, id |-> 0, pushes |-> FALSE, arg |-> arg]

AddTagFilter ==
    /\ Len(trace) < MaxFilterOps
    /\ \E tag \in FilterTags : Step(CmdFilter("addTagFilter", tag), addTagFilter(St, tag))

RemoveTagFilter ==
    /\ Len(trace) < MaxFilterOps
    /\ \E tag \in FilterTags :
          Step(CmdFilter("removeTagFilter", tag), removeTagFilter(St, tag))

SetSearchTerm ==
    /\ Len(trace) < MaxFilterOps
    /\ \E term \in SearchTerms :
          Step(CmdFilter("setSearchTerm", term), setSearchTerm(St, term))

ClearFilters ==
    /\ Len(trace) < MaxFilterOps
    /\ Step(CmdFilter("clearFilters", <<>>), clearFilters(St))

NextFilter == AddTagFilter \/ RemoveTagFilter \/ SetSearchTerm \/ ClearFilters

SpecFilter == InitFilter /\ [][NextFilter]_vars

\* The places of node id in a node list.
Places(arr, id) == {i \in 1..Len(arr) : arr[i].id = id}

\* arr lists nodes of the document in the order the document has them.
InDocumentOrder(arr) ==
    \A i, j \in 1..Len(arr) :
        i < j => \E p, q \in 1..Len(nodes(St)) :
                    p < q /\ nodes(St)[p] = arr[i] /\ nodes(St)[q] = arr[j]

\* Node A is hidden and shares a lock cluster with one of the visible nodes.
IsGhost(A, visible) ==
    /\ A \notin visible
    /\ \E B \in visible : A \in Connected({B})

\* C13: renderableNodes lists every visible node and every hidden node that
\* shares a lock cluster with a visible node exactly once, lists no other
\* node, and keeps the order of the document.
C13_RenderableIsVisibleAndGhost ==
    LET visible == Ids(visibleNodes(St))
        shown == renderableNodes(St)
    IN  /\ \A A \in Ids(nodes(St)) :
              Cardinality(Places(shown, A)) =
                  IF A \in visible \/ IsGhost(A, visible) THEN 1 ELSE 0
        /\ Range(shown) \subseteq Range(nodes(St))
        /\ InDocumentOrder(shown)

\* A tag filter hides node 1 or node 3 while the node locked to it stays
\* visible, and another node is neither visible nor a ghost.
C13_Witness ==
    /\ Len(tagFilters) > 0
    /\ \E A \in Ids(nodes(St)) :
          IsGhost(A, Ids(visibleNodes(St))) /\ A \in Ids(renderableNodes(St))
    /\ \E A \in Ids(nodes(St)) : A \notin Ids(renderableNodes(St))

\* Two characters that are the same letter in either case, or the same
\* character.
SameChar(c, d) ==
    c = d \/ \E k \in DOMAIN LowerCase : {c, d} = {LowerCase[k], UpperCase[k]}

SameIgnoringCase(str, other) ==
    Len(str) = Len(other) /\ \A i \in DOMAIN str : SameChar(str[i], other[i])

\* text holds the token #tag: a '#', then a letter, and the whole run of
\* letters, digits, '_' and '-' from that letter on spells tag.
ContainsTag(text, tag) ==
    \E i \in 1..Len(text), j \in 1..Len(text) :
        /\ text[i] = "#" /\ i < j
        /\ isLetter(text[i + 1])
        /\ \A k \in (i + 1)..j : isTagChar(text[k])
        /\ j = Len(text) \/ ~isTagChar(text[j + 1])
        /\ SameIgnoringCase(SubSeq(text, i + 1, j), tag)

\* str has part somewhere in it, letters compared without case.
ContainsIgnoringCase(str, part) ==
    \E i \in 0..(Len(str) - Len(part)) :
        SameIgnoringCase(SubSeq(str, i + 1, i + Len(part)), part)

\* C14: under an active tag filter a visible text node holds every filtered
\* tag and no group node is visible; under a search term alone a group node
\* is visible exactly when its label contains the term, case ignored.
C14_TagFiltersAndGroupSearch ==
    LET visible == Range(visibleNodes(St)) IN
    /\ Len(tagFilters) > 0 =>
          \A node \in visible :
              /\ node.type = "text" =>
                    \A i \in DOMAIN tagFilters : ContainsTag(node.text, tagFilters[i])
              /\ node.type # "group"
    /\ Len(tagFilters) = 0 /\ searchTerm # <<>> =>
          \A node \in Range(nodes(St)) :
              node.type = "group" =>
                  (node \in visible <=>
                      /\ "label" \in DOMAIN node
                      /\ ContainsIgnoringCase(node.label, searchTerm))

\* Two tag filters are active; one text node holds both and is visible,
\* another holds just one of them and is hidden, and so is a group.
C14_Witness ==
    /\ Len(tagFilters) = 2
    /\ \E node \in Range(visibleNodes(St)) : node.type = "text"
    /\ \E node \in Range(nodes(St)) \ Range(visibleNodes(St)) :
          /\ node.type = "text"
          /\ \E i \in DOMAIN tagFilters : ContainsTag(node.text, tagFilters[i])
    /\ \E node \in Range(nodes(St)) \ Range(visibleNodes(St)) : node.type = "group"

\* A search term alone shows a group whose label holds it in another case.
C14_SearchWitness ==
    /\ Len(tagFilters) = 0 /\ searchTerm = <<"A">>
    /\ \E node \in Range(visibleNodes(St)) : node.type = "group"
    /\ \E node \in Range(nodes(St)) \ Range(visibleNodes(St)) : node.type = "group"

\* C15: with no tag filter and an empty search term visibleNodes is the node
\* list of the document, same nodes in the same order, whatever filter
\* commands came before; clearFilters and the removal of the only tag filter
\* lead to such a state.
C15_NoFilterShowsAll ==
    /\ Len(tagFilters) = 0 /\ searchTerm = <<>> => visibleNodes(St) = nodes(St)
    /\ trace # <<>> /\ Last.op = "clearFilters" => visibleNodes(St) = nodes(St)
    /\ /\ trace # <<>> /\ Last.op = "removeTagFilter"
       /\ Len(prev.tagFilters) = 1 /\ SameIgnoringCase(prev.tagFilters[1], Last.arg)
       /\ searchTerm = <<>>
       => visibleNodes(St) = nodes(St)

\* A filter hid a node, the last command took the last filter away, and the
\* document holds a group node.
C15_Witness ==
    /\ Len(trace) >= 2
    /\ visibleNodes(prev) # nodes(prev)
    /\ Last.op \in {"removeTagFilter", "setSearchTerm", "clearFilters"}
    /\ Len(tagFilters) = 0 /\ searchTerm = <<>>
    /\ \E node \in Range(nodes(St)) : node.type = "group"

(***************************************************************************)
(* Commands on an id that names nothing.                                   *)
(***************************************************************************)
canUndo(s) == HasHistory(s) /\ Len(historyOf(s).undoStack) > 0
canRedo(s) == HasHistory(s) /\ Len(historyOf(s).redoStack) > 0

TargetedOps == {"updateNode", "moveNode", "resizeNode", "deleteNode", "deleteEdge",
                "updateEdge"}

\* The last command named an id that no node or edge of the document had.
StaleTarget ==
    /\ trace # <<>>
    /\ Last.op \in TargetedOps
    /\ Last.id \notin Ids(nodes(prev)) \cup Ids(edges(prev))

\* C16: a command on an id that names no node or edge changes nothing its
\* caller can see: nodes, edges, selection, canUndo and canRedo are as before.
C16_StaleTargetChangesNothing ==
    StaleTarget =>
        /\ View(St) = View(prev)
        /\ selection = prev.selection
        /\ canUndo(St) = canUndo(prev)
        /\ canRedo(St) = canRedo(prev)

(***************************************************************************)
(* Resize sessions: the resize command of the store and the resize handle  *)
(* of the node component.                                                  *)
(***************************************************************************)
MaxResizeOps == 3

\* Requested sizes below and above the minimums, and pointer travel that
\* shrinks below the minimums or grows.
ResizeSizes == {<<50, 50>>, <<300, 90>>}
ResizeDeltas == {<<-150, -150>>, <<40, 0>>}

InitResize == Start(Loaded(ClusterDoc))

ResizeNodeL ==
    /\ Len(trace) < MaxResizeOps
    /\ drag = <<>>
    /\ \E id \in StaleIds \cup ClusterNodes, size \in ResizeSizes :
          Step(CmdId("resizeNode", id), resizeNodeL(St, id, size[1], size[2]))

HandleResizeMouseDown ==
    /\ Len(trace) < MaxResizeOps
    /\ drag = <<>>
    /\ \E id \in Ids(nodes(St)) :
          Step(CmdId("handleResizeMouseDown", id), handleResizeMouseDown(St, id))

HandleResizeMouseMove ==
    /\ Len(trace) < MaxResizeOps
    /\ isResizing(St)
    /\ \E d \in ResizeDeltas :
          Step(CmdId("handleResizeMouseMove", drag[1].node),
               handleResizeMouseMove(St, d[1], d[2]))

HandleResizeMouseUp ==
    /\ Len(trace) < MaxResizeOps
    /\ isResizing(St)
    /\ Step(CmdId("handleResizeMouseUp", drag[1].node), handleResizeMouseUp(St))

NextResize ==
    \/ ResizeNodeL
    \/ HandleResizeMouseDown
    \/ HandleResizeMouseMove
    \/ HandleResizeMouseUp

SpecResize == InitResize /\ [][NextResize]_vars

\* The nodes some command or pointer move of the session has resized.
ResizedIds ==
    {trace[i].id : i \in {j \in 1..Len(trace) :
                             trace[j].op \in {"resizeNode", "handleResizeMouseMove"}}}

\* C17: a resize below the minimums is clamped: no node that was resized is
\* narrower than 120 or lower than 80.
C17_ResizedNodeKeepsMinimum ==
    \A i \in 1..Len(nodes(St)) :
        nodes(St)[i].id \in ResizedIds =>
            nodes(St)[i].width >= MIN_WIDTH /\ nodes(St)[i].height >= MIN_HEIGHT

(***************************************************************************)
(* The viewport.  Zoom levels, factors and scales are held in thousandths  *)
(* (Unit is 1), products and quotients of them rounded down; x and y are   *)
(* whole pixels.                                                           *)
(***************************************************************************)
Unit == 1000
MIN_ZOOM == 100
MAX_ZOOM == 5000
ZOOM_INTENSITY == 2

DEFAULT_VIEWPORT == [x |-> 0, y |-> 0, zoom |-> Unit]

\* a * b and a / b for numbers in thousandths.
Times(a, b) == (a * b) \div Unit
Over(a, b) == (a * Unit) \div b

\* this.activeCanvas?.['x-viewport'] ?? DEFAULT_VIEWPORT
viewport(s) ==
    IF HasActive(s) /\ "xviewport" \in DOMAIN activeCanvas(s)
    THEN activeCanvas(s).xviewport
    ELSE DEFAULT_VIEWPORT

\* setViewport as a structural mutation: a snapshot is pushed first.
setViewportPushing(s, v) ==
    IF HasActive(s)
    THEN triggerSave([pushSnapshot(s) EXCEPT !.canvases[s.activeCanvasId] =
                                   Spread(@, [xviewport |-> v])])
    ELSE s

setViewport(s, v) ==
    IF HasActive(s)
    THEN triggerSave([s EXCEPT !.canvases[s.activeCanvasId] =
                                   Spread(@, [xviewport |-> v])])
    ELSE s

pan(s, dx, dy) ==
    LET current == viewport(s)
    IN  setViewport(s, [current EXCEPT !.x = @ + dx, !.y = @ + dy])

\* zoom without the upper limit.
zoomUnlimited(s, factor, center) ==
    LET current == viewport(s)
        newZoom == Max(MIN_ZOOM, Times(current.zoom, factor))
    IN  IF center # <<>>
        THEN LET scale == Over(newZoom, current.zoom)
             IN  setViewport(s, [x |-> center[1].x - Times(center[1].x - current.x, scale),
                                 y |-> center[1].y - Times(center[1].y - current.y, scale),
                                 zoom |-> newZoom])
        ELSE setViewport(s, [current EXCEPT !.zoom = newZoom])

\* zoom(factor, centerX?, centerY?): center is <<>> when no point is given.
zoom(s, factor, center) ==
    LET current == viewport(s)
        newZoom == Max(MIN_ZOOM, Min(MAX_ZOOM, Times(current.zoom, factor)))
    IN  IF center # <<>>
        THEN LET scale == Over(newZoom, current.zoom)
             IN  setViewport(s, [x |-> center[1].x - Times(center[1].x - current.x, scale),
                                 y |-> center[1].y - Times(center[1].y - current.y, scale),
                                 zoom |-> newZoom])
        ELSE setViewport(s, [current EXCEPT !.zoom = newZoom])

resetViewport(s) == setViewport(s, DEFAULT_VIEWPORT)

\* canvas-workspace: the wheel handler.  scrolls tells that the pointer is
\* over a selected or edited node with scrollable content.
handleWheel(s, deltaY, mouseX, mouseY, scrolls) ==
    IF scrolls THEN s
    ELSE LET delta == Unit - deltaY * ZOOM_INTENSITY
             newZoom == Max(MIN_ZOOM, Min(MAX_ZOOM, Times(viewport(s).zoom, delta)))
             scale == Over(newZoom, viewport(s).zoom)
         IN  setViewport(s, [x |-> mouseX - Times(mouseX - viewport(s).x, scale),
                             y |-> mouseY - Times(mouseY - viewport(s).y, scale),
                             zoom |-> newZoom])

(***************************************************************************)
(* Viewport sessions.                                                      *)
(***************************************************************************)
MaxViewOps == 2

\* The zoom of the loaded viewport: the limits, 1, and a level in between.
LoadedZooms == {MIN_ZOOM, Unit, 2500, MAX_ZOOM}

\* The buttons' factors 0.8 and 1.2, and factors that are zero, negative
\* and huge.
ZoomFactors == {800, 1200, 0, -2000, 100000}
ZoomCenters == {<<>>, <<[x |-> 100, y |-> 50]>>}

\* deltaY of a wheel event: small turns and long flings either way.
WheelDeltas == {-100, 100, 1000, -5000}

InitView ==
    \/ Start(Loaded(ClusterDoc))
    \/ \E z \in LoadedZooms :
          Start(Loaded(Spread(ClusterDoc, [xviewport |-> [x |-> 10, y |-> 0, zoom |-> z]])))

CmdView(op, factor) == [op |-> op, id |-> 0, pushes |-> FALSE, factor |-> factor]

Pan ==
    /\ Len(trace) < MaxViewOps
    /\ Step(CmdView("pan", Unit), pan(St, 7, -3))

Zoom ==
    /\ Len(trace) < MaxViewOps
    /\ \E factor \in ZoomFactors, center \in ZoomCenters :
          Step(CmdView("zoom", factor), zoom(St, factor, center))

ResetViewport ==
    /\ Len(trace) < MaxViewOps
    /\ Step(CmdView("resetViewport", Unit), resetViewport(St))

HandleWheel ==
    /\ Len(trace) < MaxViewOps
    /\ \E deltaY \in WheelDeltas, scrolls \in BOOLEAN :
          Step(CmdView(IF scrolls THEN "scroll" ELSE "handleWheel",
                       Unit - deltaY * ZOOM_INTENSITY),
               handleWheel(St, deltaY, 100, 50, scrolls))

NextView == Pan \/ Zoom \/ ResetViewport \/ HandleWheel

SpecView == InitView /\ [][NextView]_vars

\* The level nearest to z within the limits.
Nearest(z) == IF z < MIN_ZOOM THEN MIN_ZOOM ELSE IF z > MAX_ZOOM THEN MAX_ZOOM ELSE z

\* C18: the zoom of the viewport stays within [0.1, 5] through pan, zoom,
\* resetViewport and the wheel handler, and a zoom request beyond a limit
\* ends at that limit.
C18_ZoomStaysInRange ==
    /\ MIN_ZOOM <= viewport(St).zoom /\ viewport(St).zoom <= MAX_ZOOM
    /\ trace # <<>> /\ Last.op \in {"zoom", "handleWheel"} =>
          viewport(St).zoom = Nearest(Times(viewport(prev).zoom, Last.factor))

\* Requests beyond each limit were made from a level inside the range: the
\* one before the last went below 0.1, the last above 5.
C18_Witness ==
    /\ Len(trace) >= 2
    /\ trace[Len(trace) - 1].op \in {"zoom", "handleWheel"}
    /\ trace[Len(trace) - 1].factor <= 0
    /\ viewport(prev).zoom = MIN_ZOOM
    /\ Last.op \in {"zoom", "handleWheel"}
    /\ Times(viewport(prev).zoom, Last.factor) > MAX_ZOOM
    /\ viewport(St).zoom = MAX_ZOOM

(***************************************************************************)
(* The documents of the store (history variant).                           *)
(***************************************************************************)
\* storage: saveCanvas(id, canvas) puts the canvas under its id.
saveCanvas(s, id, canvas) ==
    [s EXCEPT !.writes = Append(@, [id |-> id, canvas |-> canvas, at |-> s.now])]

\* createNewCanvas; id is what generateId returns.
createNewCanvas(s, id) ==
    LET s1 == [s EXCEPT !.canvases = (id :> createCanvas) @@ s.canvases,
                        !.activeCanvasId = id,
                        !.selection = <<>>]
    IN  saveCanvas(s1, id, JsonParse(JsonStringifyCanvas(createCanvas)))

\* delete obj[key]
DeleteKey(obj, key) == [k \in DOMAIN obj \ {key} |-> obj[k]]

\* storage deleteCanvas (deleteCanvasFromDB in the store): store.delete(id),
\* recorded among the writes as a record without a canvas.
deleteCanvas(s, id) ==
    [s EXCEPT !.writes = Append(@, [id |-> id, deleted |-> TRUE, at |-> s.now])]

\* deleteCanvasById without the check for the last canvas.
deleteCanvasByIdUnguarded(s, id, first) ==
    LET s1 == deleteCanvas([s EXCEPT !.canvases = DeleteKey(@, id),
                                     !.history = DeleteKey(@, id)], id)
    IN  IF s1.activeCanvasId = id THEN switchCanvas(s1, first) ELSE s1

\* deleteCanvasById; first is Object.keys(this.canvases)[0] after the
\* deletion, one of the canvases that are left.
deleteCanvasById(s, id, first) ==
    IF Cardinality(DOMAIN s.canvases) <= 1 THEN s
    ELSE LET s1 == deleteCanvas([s EXCEPT !.canvases = DeleteKey(@, id),
                                          !.history = DeleteKey(@, id)], id)
         IN  IF s1.activeCanvasId = id THEN switchCanvas(s1, first) ELSE s1

(***************************************************************************)
(* Document sessions.                                                      *)
(***************************************************************************)
MaxDocOps == 3

CanvasIds == {"c1", "c2", "c3", "c9"}

\* What Object.keys(canvases)[0] may be once id is deleted.
FirstKeys(s, id) ==
    IF DOMAIN s.canvases \ {id} = {} THEN {Undefined} ELSE DOMAIN s.canvases \ {id}

CmdDoc(op, id) == [op |-> op, id |-> 0, pushes |-> FALSE, canvas |-> id]

DeleteCanvasById ==
    /\ Len(trace) < MaxDocOps
    /\ \E id \in CanvasIds : \E first \in FirstKeys(St, id) :
          Step(CmdDoc("deleteCanvasById", id), deleteCanvasById(St, id, first))

CreateNewCanvas ==
    /\ Len(trace) < MaxDocOps
    /\ "c3" \notin DOMAIN canvases
    /\ Step(CmdDoc("createNewCanvas", "c3"), createNewCanvas(St, "c3"))

NextDoc ==
    \/ DeleteCanvasById
    \/ CreateNewCanvas
    \/ SwitchCanvas(MaxDocOps)
    \/ AddTextNode(MaxDocOps)
    \/ Undo(MaxDocOps)

SpecDoc == Init /\ [][NextDoc]_vars

\* C19: deleteCanvasById on the only document is refused, leaving the
\* documents, the active id and every history as they were; so there is a
\* document in every state.
C19_LastDocumentStays ==
    /\ Cardinality(DOMAIN canvases) >= 1
    /\ /\ trace # <<>> /\ Last.op = "deleteCanvasById"
       /\ Cardinality(DOMAIN prev.canvases) = 1
       => /\ canvases = prev.canvases
          /\ activeCanvasId = prev.activeCanvasId
          /\ history = prev.history

\* One document was deleted, then the deletion of the only one left, which
\* has a history, was asked for.
C19_Witness ==
    /\ Len(trace) = 3
    /\ trace[2].op = "deleteCanvasById" /\ Last.op = "deleteCanvasById"
    /\ Cardinality(DOMAIN prev.canvases) = 1
    /\ Last.canvas \in DOMAIN prev.canvases
    /\ DOMAIN history # {}

(***************************************************************************)
(* Auto-save sessions: commands on one document, the clock, and the        *)
(* timeout of createAutoSave.  The clock moves in steps of TickStep; a     *)
(* timeout that is due runs before the clock moves on and before the next  *)
(* command (its task is the first in the queue).                           *)
(***************************************************************************)
MaxSaveOps == 8
TickStep == 250

\* The callback of the timeout: saveCanvas(id, canvas) with the arguments of
\* the call that set it.
timeoutCallback(s) ==
    saveCanvas([s EXCEPT !.saveTimer = <<>>], s.saveTimer[1].id, s.saveTimer[1].canvas)

TimerDue(s) == s.saveTimer # <<>> /\ s.now >= s.saveTimer[1].due

InitSave == Start(Loaded(ClusterDoc))

\* An event of the session: a command, a step of the clock or the timeout,
\* with the time it happened at and the active canvas it left.
Event(op, id, t) ==
    [op |-> op, id |-> id, pushes |-> FALSE, at |-> now, doc |-> activeCanvas(t)]

AddTextNodeAt ==
    /\ Len(trace) < MaxSaveOps
    /\ ~TimerDue(St)
    /\ LET t == addTextNode(St, 0, 0, "")
       IN  Step(Event("addTextNode", 0, t), t)

MoveNodeAt ==
    /\ Len(trace) < MaxSaveOps
    /\ ~TimerDue(St)
    /\ LET id == nodes(St)[1].id
           t == moveNode(St, id, PosOf(St, id).x + 5, PosOf(St, id).y)
       IN  Step(Event("moveNode", id, t), t)

Tick ==
    /\ Len(trace) < MaxSaveOps
    /\ ~TimerDue(St)
    /\ LET t == [St EXCEPT !.now = @ + TickStep]
       IN  Step(Event("tick", 0, t), t)

TimeoutCallback ==
    /\ Len(trace) < MaxSaveOps
    /\ TimerDue(St)
    /\ LET t == timeoutCallback(St)
       IN  Step(Event("timeout", 0, t), t)

NextSave == AddTextNodeAt \/ MoveNodeAt \/ Tick \/ TimeoutCallback

SpecSave == InitSave /\ [][NextSave]_vars

\* The places in the session of the commands that changed the document, and
\* of the writes.
Mutations == {i \in 1..Len(trace) : trace[i].pushes}
Timeouts == {i \in 1..Len(trace) : trace[i].op = "timeout"}

\* Mutation i is the last of its burst: the next mutation, if there is one,
\* comes the full delay or more after it.
EndsBurst(i) ==
    /\ i \in Mutations
    /\ \A j \in Mutations :
          j > i /\ (\A k \in Mutations : k <= i \/ k >= j) =>
              trace[j].at - trace[i].at >= AUTOSAVE_DELAY

\* The writes between mutation i and the next mutation.
WritesAfter(i) ==
    {f \in Timeouts : f > i /\ \A j \in Mutations : j <= i \/ j > f}

\* C20: each burst of mutations, every one less than 500 ms after the one
\* before, brings exactly one write; the write comes 500 ms or more after the
\* last mutation of the burst and carries the document as that mutation left
\* it.  (The last burst of a session has its write once the timer has run.)
C20_OneWritePerBurst ==
    /\ Len(writes) = Cardinality(Timeouts)
    /\ \A i \in Mutations :
          /\ ~EndsBurst(i) => WritesAfter(i) = {}
          /\ EndsBurst(i) =>
                /\ Cardinality(WritesAfter(i)) =
                      IF saveTimer # <<>> /\ \A j \in Mutations : j <= i THEN 0 ELSE 1
                /\ \A f \in WritesAfter(i) :
                      /\ trace[f].at >= trace[i].at + AUTOSAVE_DELAY
                      /\ writes[Cardinality({g \in Timeouts : g <= f})].canvas =
                            JsonParse(JsonStringifyCanvas(trace[i].doc))
    /\ \A f \in Timeouts : \E i \in Mutations : i < f

\* A burst of two mutations 250 ms apart has been written once, 500 ms after
\* the second one.
C20_Witness ==
    /\ Len(writes) = 1
    /\ Cardinality(Mutations) = 2
    /\ \E i \in Mutations, j \in Mutations :
          /\ i < j /\ trace[j].at - trace[i].at = TickStep
          /\ writes[1].at = trace[j].at + AUTOSAVE_DELAY
          /\ trace[i].doc # trace[j].doc

(***************************************************************************)
(* Auto-save sessions in which saveCanvas may reject.                      *)
(***************************************************************************)
\* The callback of the timeout trying again after the delay when saveCanvas
\* rejects.
timeoutCallbackRetry(s) ==
    [s EXCEPT !.saveTimer = <<[id |-> s.saveTimer[1].id,
                               canvas |-> s.saveTimer[1].canvas,
                               due |-> s.now + AUTOSAVE_DELAY]>>]

\* The callback of the timeout when saveCanvas rejects: the catch clause
\* logs the error, nothing is put in storage.
timeoutCallbackRejected(s) == [s EXCEPT !.saveTimer = <<>>]

TimeoutCallbackRejected ==
    /\ Len(trace) < MaxSaveOps
    /\ TimerDue(St)
    /\ LET t == timeoutCallbackRejected(St)
       IN  Step(Event("rejected", 0, t), t)

NextSaveFail == NextSave \/ TimeoutCallbackRejected

SpecSaveFail == InitSave /\ [][NextSaveFail]_vars

Rejections == {i \in 1..Len(trace) : trace[i].op = "rejected"}

\* C21: a save that fails leaves the documents, the selection and the
\* histories as they were, and no write is tried again before a later
\* mutation has set the timer anew.
C21_FailedSaveIsNotRetried ==
    /\ trace # <<>> /\ Last.op = "rejected" =>
          /\ canvases = prev.canvases
          /\ selection = prev.selection
          /\ history = prev.history
    /\ \A f \in Rejections :
          /\ \A g \in Timeouts \cup Rejections :
                g > f => \E i \in Mutations : f < i /\ i < g
          /\ (\A i \in Mutations : i < f) => saveTimer = <<>>

\* A save failed and the full delay has passed since, with nothing written
\* and nothing pending; the document has a history.
C21_Witness ==
    /\ \E f \in Rejections :
          /\ now >= trace[f].at + AUTOSAVE_DELAY
          /\ \A i \in Mutations : i < f
    /\ writes = <<>>
    /\ saveTimer = <<>>
    /\ canUndo(St)

(***************************************************************************)
(* Edge snapping: detectEdgeSnap applied to a dragged node of 20 by 10 at  *)
(* the origin and a list of two other nodes (and the dragged node itself)  *)
(* placed around it.                                                       *)
(***************************************************************************)
SnapXs == {-28, -24, -20, 0, 16, 20, 24, 28, 29}
SnapYs == {-14, -10, -5, 0, 6, 10, 14}
SnapThresholds == {SNAP_THRESHOLD, 0}

SmallNode(id, x, y) ==
    [createTextNode(id, x, y, "") EXCEPT !.width = 20, !.height = 10]

InitSnap ==
    \E x2 \in SnapXs, y2 \in SnapYs, x3 \in SnapXs, y3 \in SnapYs :
        Start(Loaded([nodes |-> <<SmallNode(2, x2, y2), SmallNode(1, 0, 0),
                                  SmallNode(3, x3, y3)>>,
                      edges |-> <<>>, xlocks |-> <<>>]))

Dragged == nodes(St)[2]

DetectEdgeSnap ==
    /\ trace = <<>>
    /\ \E threshold \in SnapThresholds :
          Step([op |-> "detectEdgeSnap", id |-> Dragged.id, pushes |-> FALSE,
                threshold |-> threshold,
                result |-> detectEdgeSnap(Dragged, nodes(St), threshold)], St)

NextSnap == DetectEdgeSnap

SpecSnap == InitSnap /\ [][NextSnap]_vars

\* The side pairings in the order they are tried: dragged side, target side.
Pairings == <<<<"right", "left">>, <<"left", "right">>,
              <<"bottom", "top">>, <<"top", "bottom">>>>

\* Where the edge of a side lies, for a node placed at (x, y).
EdgeAt(node, x, y, side) ==
    IF side = "left" THEN x
    ELSE IF side = "right" THEN x + node.width
    ELSE IF side = "top" THEN y
    ELSE y + node.height

\* The two nodes share more than a point of the axis perpendicular to the
\* snap of the given dragged side.
PerpendicularOverlap(a, b, side) ==
    IF side \in {"left", "right"}
    THEN Max(a.y, b.y) < Min(a.y + a.height, b.y + b.height)
    ELSE Max(a.x, b.x) < Min(a.x + a.width, b.x + b.width)

EdgeDistance(a, b, p) ==
    Abs(EdgeAt(a, a.x, a.y, Pairings[p][1]) - EdgeAt(b, b.x, b.y, Pairings[p][2]))

\* The candidates: <<i, p>> for the i-th other node and the p-th pairing.
Candidates(threshold) ==
    {c \in (1..Len(nodes(St))) \X (1..4) :
        /\ nodes(St)[c[1]].id # Dragged.id
        /\ PerpendicularOverlap(Dragged, nodes(St)[c[1]], Pairings[c[2]][1])
        /\ EdgeDistance(Dragged, nodes(St)[c[1]], c[2]) <= threshold}

CandidateDistance(c) == EdgeDistance(Dragged, nodes(St)[c[1]], c[2])

\* Candidate c comes before candidate d in the order of the iteration.
Earlier(c, d) == c[1] < d[1] \/ (c[1] = d[1] /\ c[2] <= d[2])

\* C22: detectEdgeSnap returns null exactly when there is no candidate;
\* otherwise it returns a candidate of the least distance, and of those the
\* one that comes first in the order of the iteration.
C22_ClosestSnapFirstOnTie ==
    trace # <<>> /\ Last.op = "detectEdgeSnap" =>
        LET C == Candidates(Last.threshold) IN
        /\ Last.result = <<>> <=> C = {}
        /\ C # {} =>
              \E c \in C :
                  /\ \A d \in C :
                        \/ CandidateDistance(c) < CandidateDistance(d)
                        \/ CandidateDistance(c) = CandidateDistance(d) /\ Earlier(c, d)
                  /\ Last.result[1].targetNode = nodes(St)[c[1]]
                  /\ Last.result[1].draggedSide = Pairings[c[2]][1]
                  /\ Last.result[1].targetSide = Pairings[c[2]][2]
                  /\ Last.result[1].distance = CandidateDistance(c)

\* Two different nodes are candidates at the same least distance, which is
\* not zero, and a snap is returned.
C22_Witness ==
    /\ trace # <<>> /\ Last.op = "detectEdgeSnap" /\ Last.result # <<>>
    /\ Last.result[1].distance > 0
    /\ \E c \in Candidates(Last.threshold), d \in Candidates(Last.threshold) :
          /\ c[1] # d[1]
          /\ CandidateDistance(c) = Last.result[1].distance
          /\ CandidateDistance(d) = Last.result[1].distance

\* C28: a snap returned by detectEdgeSnap names another node that overlaps
\* the dragged node on the perpendicular axis, moves the dragged node along
\* one axis only, and at (snapX, snapY) puts the dragged side's edge on the
\* target side's edge.
C28_SnapIsFlush ==
    trace # <<>> /\ Last.op = "detectEdgeSnap" /\ Last.result # <<>> =>
        LET snap == Last.result[1]
            target == snap.targetNode
        IN  /\ target.id # Dragged.id
            /\ PerpendicularOverlap(Dragged, target, snap.draggedSide)
            /\ snap.snapX = Dragged.x \/ snap.snapY = Dragged.y
            /\ snap.draggedSide \in {"left", "right"} => snap.snapY = Dragged.y
            /\ snap.draggedSide \in {"top", "bottom"} => snap.snapX = Dragged.x
            /\ EdgeAt(Dragged, snap.snapX, snap.snapY, snap.draggedSide) =
                  EdgeAt(target, target.x, target.y, snap.targetSide)

\* The bottom edge of the dragged node is snapped up or down onto the top
\* edge of a node below.
C28_Witness ==
    /\ trace # <<>> /\ Last.op = "detectEdgeSnap" /\ Last.result # <<>>
    /\ Last.result[1].draggedSide = "bottom"
    /\ Last.result[1].snapY # Dragged.y

(***************************************************************************)
(* Group sessions: nodes of different places and sizes are selected and    *)
(* grouped.                                                                *)
(***************************************************************************)
MaxGroupOps == 3

GroupDoc ==
    [nodes |-> <<createTextNode(1, 0, 0, ""),
                 [createTextNode(2, 300, -50, "") EXCEPT !.height = 260],
                 [createTextNode(3, -40, 120, "") EXCEPT !.width = 120]>>,
     edges |-> <<>>,
     xlocks |-> <<>>]

InitGroup == Start([InitStore EXCEPT !.canvases = [k \in {"c1"} |-> GroupDoc]])

NextGroup ==
    \/ Select(MaxGroupOps, AnyNode(St))
    \/ MoveNode(MaxGroupOps)
    \/ CreateGroupFromSelection(MaxGroupOps)

SpecGroup == InitGroup /\ [][NextGroup]_vars

\* The last command grouped a selection that was not empty and named
\* existing nodes only.
Grouped ==
    /\ trace # <<>> /\ Last.op = "createGroupFromSelection"
    /\ prev.selection # <<>>
    /\ Range(prev.selection) \subseteq Ids(nodes(prev))

\* A sequence without its k-th element.
Without(seq, k) == SubSeq(seq, 1, k - 1) \o SubSeq(seq, k + 1, Len(seq))

\* C23: grouping a selection of existing nodes inserts one group node, the
\* selection's bounding box widened by 20 on each side, directly before the
\* earliest selected node, the other nodes keeping their order, and leaves
\* exactly the group selected.
C23_GroupWrapsSelection ==
    Grouped =>
        LET chosen == {n \in Range(nodes(prev)) : n.id \in Range(prev.selection)}
            first == CHOOSE i \in 1..Len(nodes(prev)) :
                        /\ nodes(prev)[i] \in chosen
                        /\ \A j \in 1..(i - 1) : nodes(prev)[j] \notin chosen
            group == nodes(St)[first]
        IN  /\ Len(nodes(St)) = Len(nodes(prev)) + 1
            /\ group.type = "group"
            /\ group.id \notin Ids(nodes(prev))
            /\ Without(nodes(St), first) = nodes(prev)
            /\ \A n \in chosen :
                  /\ group.x + PADDING <= n.x
                  /\ group.y + PADDING <= n.y
                  /\ n.x + n.width <= group.x + group.width - PADDING
                  /\ n.y + n.height <= group.y + group.height - PADDING
            /\ \E n \in chosen : group.x + PADDING = n.x
            /\ \E n \in chosen : group.y + PADDING = n.y
            /\ \E n \in chosen : n.x + n.width = group.x + group.width - PADDING
            /\ \E n \in chosen : n.y + n.height = group.y + group.height - PADDING
            /\ selection = <<group.id>>

\* The second and the third node were selected, in the other order, and
\* grouped: the group sits between the first and the second node.
C23_Witness ==
    /\ Grouped
    /\ prev.selection = <<3, 2>>
    /\ nodes(St)[2].type = "group"
    /\ nodes(St)[1].id = 1

(***************************************************************************)
(* CanvasStore.setSelectedNodesColor and a session of selecting, coloring, *)
(* opening a transaction and undoing.                                      *)
(***************************************************************************)
MaxColorOps == 4

RECURSIVE updateEach(_, _, _)
\* for (const id of ids) this.updateNode(id, updates)
updateEach(s, ids, updates) ==
    IF ids = <<>> THEN s
    ELSE updateEach(updateNode(s, Head(ids), updates), Tail(ids), updates)

\* setSelectedNodesColor without the transaction around the loop.
setSelectedNodesColorEach(s, color) ==
    updateEach(s, s.selection, [color |-> color])

setSelectedNodesColor(s, color) ==
    endTransaction(updateEach(beginTransaction(s), s.selection, [color |-> color]))

\* NodeColor values the palette offers, and undefined.
NodeColors == {"1", "2", Undefined}

\* A document with a colored and two uncolored nodes and an edge.
ColorDoc ==
    [nodes |-> <<createTextNode(1, 0, 0, ""),
                 Spread(createTextNode(2, 300, 0, ""), [color |-> "1"]),
                 createTextNode(3, 0, 300, "")>>,
     edges |-> <<createEdge(4, 1, 2)>>,
     xlocks |-> <<>>]

InitColor == Start([InitStore EXCEPT !.canvases = [k \in {"c1"} |-> ColorDoc]])

SetSelectedNodesColor ==
    /\ Len(trace) < MaxColorOps
    /\ \E color \in NodeColors :
          Step([op |-> "setSelectedNodesColor", id |-> 0, pushes |-> FALSE,
                color |-> color],
               setSelectedNodesColor(St, color))

NextColor ==
    \/ Select(MaxColorOps, AnyNode(St))
    \/ SelectAll(MaxColorOps)
    \/ SetSelectedNodesColor
    \/ BeginTransaction(MaxColorOps)
    \/ Undo(MaxColorOps)

SpecColor == InitColor /\ [][NextColor]_vars

\* The color a reader finds on a node: undefined when the property is absent.
ColorOf(node) == IF "color" \in DOMAIN node THEN node.color ELSE Undefined

Colored == trace # <<>> /\ Last.op = "setSelectedNodesColor"

\* Some selected node had another color than the one applied.
ColorChanges ==
    \E i \in 1..Len(nodes(prev)) :
        /\ nodes(prev)[i].id \in Range(prev.selection)
        /\ ColorOf(nodes(prev)[i]) # Last.color

\* Every selected node carries the color applied and is otherwise as it
\* was; the other nodes and the edges are as they were.
ColorApplied ==
    /\ Len(nodes(St)) = Len(nodes(prev))
    /\ \A i \in 1..Len(nodes(prev)) :
          IF nodes(prev)[i].id \in Range(prev.selection)
          THEN /\ ColorOf(nodes(St)[i]) = Last.color
               /\ \A k \in DOMAIN nodes(prev)[i] \ {"color"} :
                     nodes(St)[i][k] = nodes(prev)[i][k]
               /\ DOMAIN nodes(St)[i] \ {"color"} = DOMAIN nodes(prev)[i] \ {"color"}
          ELSE nodes(St)[i] = nodes(prev)[i]
    /\ edges(St) = edges(prev)

MaxLinkOps == 3

\* this.edges.some(e => e.fromNode === fromNode && e.toNode === toNode)
edgeExists(s, fromNode, toNode) ==
    \E i \in 1..Len(edges(s)) :
        edges(s)[i].fromNode = fromNode /\ edges(s)[i].toNode = toNode

RECURSIVE linkEach(_, _, _)
\* for (const toNode of rest) if (!exists) this.addEdge(first, toNode)
linkEach(s, first, rest) ==
    IF rest = <<>> THEN s
    ELSE linkEach(IF edgeExists(s, first, Head(rest)) THEN s
                  ELSE addEdge(s, first, Head(rest)),
                  first, Tail(rest))

linkSelectedNodes(s) ==
    IF Len(s.selection) < 2 THEN s
    ELSE endTransaction(
            linkEach(beginTransaction(s), Head(s.selection), Tail(s.selection)))

LinkSelectedNodes ==
    /\ Len(trace) < MaxLinkOps
    /\ Step(Cmd("linkSelectedNodes"), linkSelectedNodes(St))

\* addEdge between any two nodes of the document.
AddEdgeBetween ==
    /\ Len(trace) < MaxLinkOps
    /\ \E fromNode \in Ids(nodes(St)) :
          \E toNode \in Ids(nodes(St)) \ {fromNode} :
             Step([op |-> "addEdge", id |-> 0, pushes |-> FALSE,
                   fromNode |-> fromNode, toNode |-> toNode],
                  addEdge(St, fromNode, toNode))

NextLink ==
    \/ Select(MaxLinkOps, Ids(nodes(St)))
    \/ SelectAll(MaxLinkOps)
    \/ LinkSelectedNodes
    \/ AddEdgeBetween

\* The document of three nodes and one edge (1 -> 2), nothing selected.
SpecLink == InitColor /\ [][NextLink]_vars

SamePair(e, f) == e.fromNode = f.fromNode /\ e.toNode = f.toNode

NoDuplicateEdge(s) ==
    \A i, j \in 1..Len(edges(s)) : SamePair(edges(s)[i], edges(s)[j]) => i = j

(***************************************************************************)
(* C25, as stated: no two edges of the document go from the same node to   *)
(* the same node, whichever of addEdge and linkSelectedNodes was called,   *)
(* and the attempt to add an edge that exists leaves the edges unchanged.  *)
(***************************************************************************)
C25_NoDuplicateEdge ==
    /\ NoDuplicateEdge(St)
    /\ trace # <<>> /\ Last.op = "addEdge"
         /\ edgeExists(prev, Last.fromNode, Last.toNode)
       => edges(St) = edges(prev)

\* What linkSelectedNodes does keep: it adds no edge that exists, so a
\* document without duplicates has none after it, and a second call on the
\* same selection adds nothing.
LinkKeepsEdgesUnique ==
    trace # <<>> /\ Last.op = "linkSelectedNodes" =>
        /\ NoDuplicateEdge(prev) => NoDuplicateEdge(St)
        /\ edges(linkSelectedNodes(St)) = edges(St)

(***************************************************************************)
(* SpecPick: a session of the selection commands alone, setSelection being *)
(* given any list of ids, a list naming an id twice included.              *)
(***************************************************************************)
MaxPickOps == 3

\* The lists of at most two ids of nodes of the document.
IdLists(s) ==
    {<<>>} \cup {<<a>> : a \in Ids(nodes(s))}
           \cup {<<a, b>> : a \in Ids(nodes(s)), b \in Ids(nodes(s))}

SetSelectionTo ==
    /\ Len(trace) < MaxPickOps
    /\ \E ids \in IdLists(St) :
          Step([op |-> "setSelection", id |-> 0, pushes |-> FALSE, ids |-> ids],
               setSelection(St, ids))

NextPick ==
    \/ Select(MaxPickOps, AnyNode(St))
    \/ Deselect(MaxPickOps)
    \/ ToggleSelection(MaxPickOps)
    \/ SelectOnly(MaxPickOps)
    \/ SelectAll(MaxPickOps)
    \/ ClearSelection(MaxPickOps)
    \/ SetSelectionTo

SpecPick == Init /\ [][NextPick]_vars

NoIdTwice(seq) == \A i, j \in 1..Len(seq) : seq[i] = seq[j] => i = j

\* select of a selected id and deselect of an unselected one change
\* nothing; selectOnly leaves the one id.
SelectionLaws ==
    trace # <<>> =>
        /\ Last.op = "select" /\ includes(prev.selection, Last.id)
             => selection = prev.selection
        /\ Last.op = "deselect" /\ ~includes(prev.selection, Last.id)
             => selection = prev.selection
        /\ Last.op = "selectOnly" => selection = <<Last.id>>

MaxHistOps == 4

\* this.history[id], the stacks being empty until the first snapshot.
HistoryAt(s, id) == IF id \in DOMAIN s.history THEN s.history[id] ELSE EmptyHistory

SwitchCanvasTo ==
    /\ Len(trace) < MaxHistOps
    /\ \E id \in {"c1", "c2", "c9"} :
          Step([op |-> "switchCanvas", id |-> 0, pushes |-> FALSE, to |-> id,
                from |-> activeCanvasId,
                canvas |-> canvases[activeCanvasId],
                history |-> HistoryAt(St, activeCanvasId)],
               switchCanvas(St, id))

NextHist ==
    \/ AddTextNode(MaxHistOps)
    \/ MoveNode(MaxHistOps)
    \/ Undo(MaxHistOps)
    \/ Redo(MaxHistOps)
    \/ BeginTransaction(MaxHistOps)
    \/ EndTransaction(MaxHistOps)
    \/ SwitchCanvasTo

SpecHist == Init /\ [][NextHist]_vars

\* Document id is in s as it is in t: nodes, edges, undo and redo stack.
SameDocument(s, t, id) ==
    /\ s.canvases[id] = t.canvases[id]
    /\ HistoryAt(s, id) = HistoryAt(t, id)

\* Event i switched away from a document to another one, and the last
\* event is the first one after it that switched back.
AwayAndBack(i) ==
    /\ i < Len(trace)
    /\ trace[i].op = "switchCanvas"
    /\ trace[i].to \in DOMAIN canvases \ {trace[i].from}
    /\ Last.op = "switchCanvas"
    /\ Last.to = trace[i].from
    /\ \A j \in (i + 1)..(Len(trace) - 1) :
          trace[j].op = "switchCanvas" => trace[j].to # trace[i].from

(***************************************************************************)
(* C27: a mutation, undo or redo changes the nodes, edges, undo stack and  *)
(* redo stack of no document but the active one; switchCanvas changes no   *)
(* document and no history; a document switched away from and back to has  *)
(* the content and the history it was left with.                           *)
(***************************************************************************)
C27_HistoryPerDocument ==
    trace # <<>> =>
        /\ Last.op # "switchCanvas" =>
              \A id \in DOMAIN prev.canvases \ {prev.activeCanvasId} :
                  SameDocument(St, prev, id)
        /\ Last.op = "switchCanvas" =>
              /\ canvases = prev.canvases
              /\ history = prev.history
        /\ \A i \in 1..Len(trace) :
              AwayAndBack(i) =>
                  /\ activeCanvasId = trace[i].from
                  /\ canvases[activeCanvasId] = trace[i].canvas
                  /\ HistoryAt(St, activeCanvasId) = trace[i].history

\* The first document was changed, left for the second, which was changed
\* too, and switched back to, its undo stack still holding its entry.
C27_Witness ==
    /\ Len(trace) = 4
    /\ AwayAndBack(2)
    /\ trace[1].op = "moveNode" /\ trace[1].pushes
    /\ trace[3].op = "addTextNode"
    /\ activeCanvasId = "c1"
    /\ Len(HistoryAt(St, "c1").undoStack) = 1
    /\ Len(HistoryAt(St, "c2").undoStack) = 1
    /\ HistoryAt(St, "c1") # HistoryAt(St, "c2")

(***************************************************************************)
(* SpecAlign: calculateAlignments for a dragged node of 20 by 10 at the    *)
(* origin against a node of the same size and a larger one, at positions   *)
(* near its edges and centre, beyond the threshold and tied at equal       *)
(* distance on either side.                                                *)
(***************************************************************************)
AlignXs == {-28, -24, 0, 16, 24, 29}
AlignYs == {-14, -10, 0, 6, 14, 40}

InitAlign ==
    \E x2 \in AlignXs, y2 \in AlignYs, x3 \in AlignXs, y3 \in AlignYs :
        Start(Loaded([nodes |-> <<SmallNode(1, 0, 0), SmallNode(2, x2, y2),
                                  [SmallNode(3, x3, y3) EXCEPT !.width = 40,
                                                               !.height = 20]>>,
                      edges |-> <<>>, xlocks |-> <<>>]))

CalculateAlignments ==
    /\ trace = <<>>
    /\ \E threshold \in SnapThresholds :
          Step([op |-> "calculateAlignments", id |-> nodes(St)[1].id,
                pushes |-> FALSE, threshold |-> threshold,
                result |-> calculateAlignments(nodes(St)[1], Tail(nodes(St)),
                                               threshold)], St)

NextAlign == CalculateAlignments

SpecAlign == InitAlign /\ [][NextAlign]_vars

\* The relationships tested on one axis against one node, in the order of
\* the tests: the distance of each and the position it gives the dragged
\* node.  lo, hi and mid are the near edge, the far edge and the centre on
\* the axis, size the extent of the dragged node on it.
Relationships(d, t, size) ==
    <<[distance |-> Abs(d.lo - t.lo), position |-> t.lo],
      [distance |-> Abs(d.hi - t.hi), position |-> t.hi - size],
      [distance |-> Abs(d.lo - t.hi), position |-> t.hi],
      [distance |-> Abs(d.hi - t.lo), position |-> t.lo - size],
      [distance |-> Abs(d.mid - t.mid), position |-> t.mid - size \div 2]>>

AxisX(node) ==
    [lo |-> node.x, hi |-> node.x + node.width, mid |-> node.x + node.width \div 2]

AxisY(node) ==
    [lo |-> node.y, hi |-> node.y + node.height, mid |-> node.y + node.height \div 2]

\* The relationships against every other node, node after node.
RelationshipsX ==
    [k \in 1..(5 * (Len(nodes(St)) - 1)) |->
        Relationships(AxisX(nodes(St)[1]), AxisX(nodes(St)[(k - 1) \div 5 + 2]),
                      nodes(St)[1].width)[((k - 1) % 5) + 1]]

RelationshipsY ==
    [k \in 1..(5 * (Len(nodes(St)) - 1)) |->
        Relationships(AxisY(nodes(St)[1]), AxisY(nodes(St)[(k - 1) \div 5 + 2]),
                      nodes(St)[1].height)[((k - 1) % 5) + 1]]

Within(rels, threshold) == {k \in 1..Len(rels) : rels[k].distance <= threshold}

\* The first relationship of minimum distance among those within threshold.
FirstClosest(rels, threshold) ==
    CHOOSE k \in Within(rels, threshold) :
        \A j \in Within(rels, threshold) :
            \/ rels[k].distance < rels[j].distance
            \/ rels[k].distance = rels[j].distance /\ k <= j

\* null when no relationship is within threshold, else the position of the
\* first closest one.
SnapOf(rels, threshold) ==
    IF Within(rels, threshold) = {} THEN <<>>
    ELSE <<rels[FirstClosest(rels, threshold)].position>>

Aligned == trace # <<>> /\ Last.op = "calculateAlignments"

(***************************************************************************)
(* C29: snapX is null exactly when no relationship on the x axis (four     *)
(* edge-to-edge and one centre-to-centre against every other node) is      *)
(* within threshold, and otherwise the position given by the first found   *)
(* relationship of minimum distance; snapY likewise on the y axis, the two *)
(* chosen independently.                                                   *)
(***************************************************************************)
C29_ClosestAlignmentPerAxis ==
    Aligned =>
        /\ Last.result.snapX = SnapOf(RelationshipsX, Last.threshold)
        /\ Last.result.snapY = SnapOf(RelationshipsY, Last.threshold)

\* On the x axis a relationship of the first node and one of the second are
\* tied at the minimum distance and give different positions, the first
\* found being taken, while nothing is within threshold on the y axis.
C29_Witness ==
    /\ Aligned
    /\ \E k, j \in Within(RelationshipsX, Last.threshold) :
          /\ k = FirstClosest(RelationshipsX, Last.threshold)
          /\ k <= 5 /\ j > 5
          /\ RelationshipsX[j].distance = RelationshipsX[k].distance
          /\ RelationshipsX[j].distance > 0
          /\ RelationshipsX[j].position # RelationshipsX[k].position
          /\ Last.result.snapX = <<RelationshipsX[k].position>>
    /\ Last.result.snapY = <<>>

\* A later node is strictly closer than the match of the earlier one and
\* gives the position.
C29_CloserLaterWitness ==
    /\ Aligned
    /\ Within(RelationshipsX, Last.threshold) \cap 1..5 # {}
    /\ FirstClosest(RelationshipsX, Last.threshold) > 5

(***************************************************************************)
(* The store with node locks (stores/canvas.svelte.ts): adding nodes, and  *)
(* a session of it on the document of two nodes.                           *)
(***************************************************************************)
MaxAddOps == 3

createLinkNode(id, x, y, url) ==
    [id |-> id, type |-> "link", x |-> x, y |-> y,
     width |-> DEFAULT_NODE_WIDTH, height |-> DEFAULT_NODE_HEIGHT, url |-> url]

addNodeL(s, node) ==
    IF HasActive(s)
    THEN triggerSave(SetNodes(s, Append(nodes(s), node)))
    ELSE s

addTextNodeL(s, x, y, text) ==
    addNodeL([s EXCEPT !.nextId = @ + 1], createTextNode(s.nextId, x, y, text))

addLinkNodeL(s, x, y, url) ==
    addNodeL([s EXCEPT !.nextId = @ + 1], createLinkNode(s.nextId, x, y, url))

addGroupNodeL(s, x, y, label) ==
    addNodeL([s EXCEPT !.nextId = @ + 1], createGroupNode(s.nextId, x, y, label))

\* Where the pointer is when a node is added.
AddPlaces == {0, 40}

AddTextNodeL ==
    /\ Len(trace) < MaxAddOps
    /\ \E x \in AddPlaces :
          Step(CmdId("addTextNode", nextId), addTextNodeL(St, x, x, ""))

AddLinkNodeL ==
    /\ Len(trace) < MaxAddOps
    /\ \E x \in AddPlaces :
          Step(CmdId("addLinkNode", nextId), addLinkNodeL(St, x, x, <<"u">>))

AddGroupNodeL ==
    /\ Len(trace) < MaxAddOps
    /\ \E x \in AddPlaces :
          Step(CmdId("addGroupNode", nextId), addGroupNodeL(St, x, x, Undefined))

NextAdd == AddTextNodeL \/ AddLinkNodeL \/ AddGroupNodeL

SpecAdd == Init /\ [][NextAdd]_vars

(***************************************************************************)
(* C30, as stated: addGroupNode puts the new group at index 0, before the  *)
(* nodes the document had, in their order; addTextNode and addLinkNode put *)
(* the new node after them.                                                *)
(***************************************************************************)
C30_GroupFirstOthersLast ==
    trace # <<>> /\ HasActive(prev) =>
        /\ Last.op = "addGroupNode" =>
              /\ Len(nodes(St)) = Len(nodes(prev)) + 1
              /\ nodes(St)[1].type = "group"
              /\ nodes(St)[1].id \notin Ids(nodes(prev))
              /\ Tail(nodes(St)) = nodes(prev)
        /\ Last.op \in {"addTextNode", "addLinkNode"} =>
              /\ Len(nodes(St)) = Len(nodes(prev)) + 1
              /\ nodes(St)[Len(nodes(St))].type \in {"text", "link"}
              /\ nodes(St)[Len(nodes(St))].id \notin Ids(nodes(prev))
              /\ SubSeq(nodes(St), 1, Len(nodes(prev))) = nodes(prev)

(***************************************************************************)
(* SpecDel: a session of selecting, deleteSelectedNodes, opening a         *)
(* transaction and undoing, on a document of three nodes joined by three   *)
(* edges.                                                                  *)
(***************************************************************************)
MaxDelOps == 4

DelDoc ==
    [nodes |-> <<createTextNode(1, 0, 0, ""), createTextNode(2, 300, 0, ""),
                 createTextNode(3, 0, 300, "")>>,
     edges |-> <<createEdge(11, 1, 2), createEdge(12, 2, 3), createEdge(13, 3, 1)>>,
     xlocks |-> <<>>]

InitDel == Start([InitStore EXCEPT !.canvases = [k \in {"c1"} |-> DelDoc]])

NextDel ==
    \/ Select(MaxDelOps, AnyNode(St))
    \/ SelectAll(MaxDelOps)
    \/ DeleteSelectedNodes(MaxDelOps)
    \/ BeginTransaction(MaxDelOps)
    \/ Undo(MaxDelOps)

SpecDel == InitDel /\ [][NextDel]_vars

DeletedSelection == trace # <<>> /\ Last.op = "deleteSelectedNodes"

\* The selected ids that named a node.
RemovedIds == Range(prev.selection) \cap Ids(nodes(prev))

\* The selected nodes and the edges at them are gone, the other nodes and
\* edges are as they were, in their order, and nothing is selected.
SelectionDeleted ==
    /\ nodes(St) = SelectSeq(nodes(prev), LAMBDA n : n.id \notin Range(prev.selection))
    /\ edges(St) = SelectSeq(edges(prev),
                             LAMBDA e : /\ e.fromNode \notin Range(prev.selection)
                                        /\ e.toNode \notin Range(prev.selection))
    /\ selection = <<>>

C31_EdgeKeptWitness ==
    /\ DeletedSelection
    /\ ~prev.inTransaction
    /\ RemovedIds = {1}
    /\ Len(edges(St)) = 1

(***************************************************************************)
(* canvas-workspace.svelte: handleDrop.  The handler runs up to its first  *)
(* await and is resumed when the awaited promise settles; drop holds the   *)
(* number of files, the index of the file at hand, the await the handler   *)
(* is suspended at and the node made for the file.  Between two steps of   *)
(* the handler the user's other commands run.                              *)
(***************************************************************************)
MaxDropOps == 5
MaxFiles == 2
STACK_OFFSET == 20

createFileNode(id, x, y, filename, mimeType, size) ==
    [id |-> id, type |-> "file", x |-> x, y |-> y,
     width |-> DEFAULT_NODE_WIDTH, height |-> DEFAULT_NODE_HEIGHT,
     filename |-> filename, mimeType |-> mimeType, size |-> size]

\* The end of one turn of the loop: the next file's canSaveFile is awaited,
\* or, after the last file, endTransaction is called and the handler ends.
dropContinue(s) ==
    LET d == s.drop[1] IN
    IF d.i < d.files
    THEN [s EXCEPT !.drop = <<[d EXCEPT !.i = @ + 1, !.at = "canSaveFile",
                                        !.node = <<>>]>>]
    ELSE [endTransaction(s) EXCEPT !.drop = <<>>]

\* handleDrop up to the first await.
handleDrop(s, files) ==
    IF files = 0 THEN s
    ELSE [beginTransaction(s) EXCEPT
             !.drop = <<[files |-> files, i |-> 1, at |-> "canSaveFile",
                         node |-> <<>>]>>]

\* The handler resumed with the result of canSaveFile.
resumeCanSaveFile(s, hasSpace) ==
    LET d == s.drop[1] IN
    IF ~hasSpace THEN dropContinue(s)
    ELSE [s EXCEPT !.nextId = @ + 1,
                   !.drop = <<[d EXCEPT
                       !.at = "saveFileToOPFS",
                       !.node = <<createFileNode(s.nextId,
                                                 (d.i - 1) * STACK_OFFSET,
                                                 (d.i - 1) * STACK_OFFSET,
                                                 "f", "text/plain", 1)>>]>>]

\* The handler resumed after saveFileToOPFS: the node is added and selected
\* when the file was saved, the error is logged when it was not.
resumeSaveFileToOPFS(s, saved) ==
    LET d == s.drop[1] IN
    IF ~saved THEN dropContinue(s)
    ELSE LET s1 == addNode(s, d.node[1])
             s2 == IF d.i = 1 THEN selectOnly(s1, d.node[1].id)
                   ELSE select(s1, d.node[1].id)
         IN  dropContinue(s2)

\* An event of the handler: started is the length of the undo stack when
\* handleDrop began (in its own event), added the id of the file node the
\* step added.
DropEvent(op, added, t) ==
    [op |-> op, id |-> 0, pushes |-> FALSE, added |-> added,
     started |-> Len(UndoStack(St)), startedOn |-> activeCanvasId,
     done |-> t.drop = <<>>]

HandleDrop ==
    /\ Len(trace) < MaxDropOps
    /\ drop = <<>>
    /\ \E files \in 1..MaxFiles :
          LET t == handleDrop(St, files) IN Step(DropEvent("handleDrop", {}, t), t)

ResumeCanSaveFile ==
    /\ Len(trace) < MaxDropOps + 2
    /\ drop # <<>>
    /\ drop[1].at = "canSaveFile"
    /\ \E hasSpace \in BOOLEAN :
          LET t == resumeCanSaveFile(St, hasSpace)
          IN  Step(DropEvent("canSaveFile", {}, t), t)

ResumeSaveFileToOPFS ==
    /\ Len(trace) < MaxDropOps + 2
    /\ drop # <<>>
    /\ drop[1].at = "saveFileToOPFS"
    /\ \E saved \in BOOLEAN :
          LET t == resumeSaveFileToOPFS(St, saved)
          IN  Step(DropEvent("saveFileToOPFS",
                             IF saved /\ HasActive(St) THEN {drop[1].node[1].id} ELSE {},
                             t), t)

NextDrop ==
    \/ HandleDrop
    \/ ResumeCanSaveFile
    \/ ResumeSaveFileToOPFS
    \/ AddTextNode(MaxDropOps)
    \/ Undo(MaxDropOps)
    \/ SwitchCanvas(MaxDropOps)

SpecDrop == Init /\ [][NextDrop]_vars

DropOps == {"handleDrop", "canSaveFile", "saveFileToOPFS"}

\* The last event ended a drop that began with event b.
DropEnded(b) ==
    /\ trace # <<>>
    /\ Last.op \in DropOps /\ Last.done
    /\ b \in 1..Len(trace)
    /\ trace[b].op = "handleDrop"
    /\ \A j \in (b + 1)..Len(trace) : trace[j].op # "handleDrop"

\* The events of the drop that began with event b, and the file nodes it
\* added.
DropSteps(b) == {j \in b..Len(trace) : trace[j].op \in DropOps}
DropAdded(b) == UNION {trace[j].added : j \in DropSteps(b)}

\* No command of the user ran between the steps of the drop.
Uninterrupted(b) == \A j \in b..Len(trace) : trace[j].op \in DropOps

\* The undo stack grew by one entry if the drop added a node and by none if
\* it did not, and one undo removes the nodes the drop added and nothing
\* else.
OneUndoStep(b) ==
    IF DropAdded(b) = {}
    THEN Len(UndoStack(St)) = trace[b].started
    ELSE /\ Len(UndoStack(St)) = trace[b].started + 1
         /\ View(undo(St)).nodes =
               SelectSeq(View(St).nodes, LAMBDA n : n.id \notin DropAdded(b))
         /\ View(undo(St)).edges = View(St).edges

(***************************************************************************)
(* C32, as stated: whatever commands of the user ran at the awaits of      *)
(* handleDrop, when the drop has finished the undo stack holds one entry   *)
(* more than when it began if a file node was added, and as many if none   *)
(* was, and one undo removes the file nodes the drop added and nothing     *)
(* else.                                                                   *)
(***************************************************************************)
C32_DropIsOneUndoStep ==
    \A b \in 1..Len(trace) : DropEnded(b) => OneUndoStep(b)

\* What does hold: a drop that no command interrupted is one undo step.
UninterruptedDropIsOneUndoStep ==
    \A b \in 1..Len(trace) : DropEnded(b) /\ Uninterrupted(b) => OneUndoStep(b)

\* A drop added a file node after the user added a text node at one of its
\* awaits, and one undo removes both.
DropUndoRemovesOtherNode ==
    \E b \in 1..Len(trace) :
        /\ DropEnded(b)
        /\ DropAdded(b) # {}
        /\ \E j \in b..Len(trace) : trace[j].op = "addTextNode"
        /\ Len(View(undo(St)).nodes) = Len(View(St).nodes) - 2

\* A drop of two files that no command interrupted added two nodes.
UninterruptedDropWitness ==
    \E b \in 1..Len(trace) :
        DropEnded(b) /\ Uninterrupted(b) /\ Cardinality(DropAdded(b)) = 2

(***************************************************************************)
(* +page.svelte / +layout.svelte: the effect that deselects hidden nodes.  *)
(* It runs after every change of the hidden nodes or of the selection,     *)
(* before the next event is handled.                                       *)
(***************************************************************************)
MaxPruneOps == 2

\* The effect dropping the whole selection when a selected node is hidden.
deselectHiddenNodesAll(s) ==
    LET hiddenIds == hiddenNodeIds(s) IN
    IF Cardinality(hiddenIds) > 0
    THEN LET newSelection == SelectSeq(s.selection, LAMBDA id : id \notin hiddenIds)
         IN  IF Len(newSelection) # Len(s.selection)
             THEN setSelection(s, <<>>)
             ELSE s
    ELSE s

deselectHiddenNodes(s) ==
    LET hiddenIds == hiddenNodeIds(s) IN
    IF Cardinality(hiddenIds) > 0
    THEN LET newSelection == SelectSeq(s.selection, LAMBDA id : id \notin hiddenIds)
         IN  IF Len(newSelection) # Len(s.selection)
             THEN setSelection(s, newSelection)
             ELSE s
    ELSE s

\* Three nodes, all selected in an order that is not the document's,
\* together with an id that names no node.
InitPrune ==
    \E n1 \in {n \in FilterNodes(1) : isTextNode(n)}, n2 \in FilterNodes(2),
       n3 \in {n \in FilterNodes(3) : ~isTextNode(n)} :
        Start([Loaded([nodes |-> <<n1, n2, n3>>, edges |-> <<>>, xlocks |-> <<>>])
                  EXCEPT !.selection = <<3, 0, 1, 2>>])

AddTagFilterThenEffect ==
    /\ Len(trace) < MaxPruneOps
    /\ \E tag \in FilterTags :
          Step(CmdFilter("addTagFilter", tag),
               deselectHiddenNodes(addTagFilter(St, tag)))

RemoveTagFilterThenEffect ==
    /\ Len(trace) < MaxPruneOps
    /\ \E tag \in FilterTags :
          Step(CmdFilter("removeTagFilter", tag),
               deselectHiddenNodes(removeTagFilter(St, tag)))

SetSearchTermThenEffect ==
    /\ Len(trace) < MaxPruneOps
    /\ \E term \in SearchTerms :
          Step(CmdFilter("setSearchTerm", term),
               deselectHiddenNodes(setSearchTerm(St, term)))

ClearFiltersThenEffect ==
    /\ Len(trace) < MaxPruneOps
    /\ Step(CmdFilter("clearFilters", <<>>), deselectHiddenNodes(clearFilters(St)))

SelectAllThenEffect ==
    /\ Len(trace) < MaxPruneOps
    /\ Step(CmdFilter("selectAll", <<>>), deselectHiddenNodes(selectAll(St)))

NextPrune ==
    \/ AddTagFilterThenEffect
    \/ RemoveTagFilterThenEffect
    \/ SetSearchTermThenEffect
    \/ ClearFiltersThenEffect
    \/ SelectAllThenEffect

SpecPrune == InitPrune /\ [][NextPrune]_vars

FilterOps == {"addTagFilter", "removeTagFilter", "setSearchTerm", "clearFilters"}

(***************************************************************************)
(* C33: after a change of the tag filters or of the search term and the    *)
(* run of the effect, no selected id is the id of a node the filter hides, *)
(* and the selection is what it was without the ids of hidden nodes, in    *)
(* the same order.                                                         *)
(***************************************************************************)
C33_SelectionHoldsNoHiddenNode ==
    trace # <<>> /\ Last.op \in FilterOps =>
        /\ Range(selection) \cap hiddenNodeIds(St) = {}
        /\ selection = SelectSeq(prev.selection,
                                 LAMBDA id : id \notin hiddenNodeIds(St))

\* A filter change hid one of three selected nodes: the two others stay
\* selected in their order, which is not the document's.
C33_Witness ==
    /\ trace # <<>>
    /\ Last.op \in FilterOps
    /\ prev.selection = <<3, 0, 1, 2>>
    /\ hiddenNodeIds(St) = {1}
    /\ selection = <<3, 0, 2>>

(***************************************************************************)
(* SpecRedo: a long session of independent mutations followed by a run of  *)
(* undos, and then by commands of every kind once the session is fresh,    *)
(* holds 30 mutations, or has 29 or 30 entries on the redo stack.          *)
(***************************************************************************)
MaxRedoOps == 3

FillBeforeUndo == Fill /\ RedoStack(St) = <<>>

Unwind ==
    /\ trace = <<>>
    /\ UndoStack(St) # <<>>
    /\ Apply(undo(St))
    /\ prev' = St
    /\ UNCHANGED <<trace, base, filled>>

RedoBudget ==
    IF \/ trace # <<>>
       \/ Len(RedoStack(St)) >= HISTORY_LIMIT - 1
       \/ filled \in {0, HISTORY_LIMIT}
    THEN MaxRedoOps ELSE 0

NextRedo ==
    \/ FillBeforeUndo
    \/ Unwind
    \/ MoveNode(RedoBudget)
    \/ BeginTransaction(RedoBudget)
    \/ EndTransaction(RedoBudget)
    \/ Undo(RedoBudget)
    \/ Redo(RedoBudget)

SpecRedo == Init /\ [][NextRedo]_vars

\* The snapshots the history of the active document holds in s.
Held(s) == Len(UndoStack(s)) + Len(RedoStack(s))

(***************************************************************************)
(* C34: an undo or redo that finds a snapshot leaves the number of         *)
(* snapshots on the two stacks together unchanged, one stack a snapshot    *)
(* shorter and the other one longer; an undo or redo that finds none       *)
(* leaves the whole store, the pending save included, as it was; and the   *)
(* redo stack of every document holds at most 30 snapshots in every state. *)
(***************************************************************************)
C34_UndoRedoKeepSnapshotCount ==
    /\ \A id \in DOMAIN history : Len(history[id].redoStack) <= HISTORY_LIMIT
    /\ trace # <<>> /\ Last.op = "undo" =>
          IF UndoStack(prev) = <<>> THEN St = prev
          ELSE /\ Held(St) = Held(prev)
               /\ Len(RedoStack(St)) = Len(RedoStack(prev)) + 1
    /\ trace # <<>> /\ Last.op = "redo" =>
          IF RedoStack(prev) = <<>> THEN St = prev
          ELSE /\ Held(St) = Held(prev)
               /\ Len(UndoStack(St)) = Len(UndoStack(prev)) + 1

\* The redo stack holds 30 snapshots after an undo that found one, with a
\* save pending.
C34_Witness ==
    /\ trace # <<>>
    /\ Last.op = "undo"
    /\ UndoStack(prev) # <<>>
    /\ Len(RedoStack(St)) = HISTORY_LIMIT
    /\ saveTimer # <<>>

\* A redo on an empty redo stack after a mutation: nothing changed.
C34_EmptyWitness ==
    /\ Len(trace) >= 2
    /\ Last.op = "redo"
    /\ RedoStack(prev) = <<>>
    /\ UndoStack(prev) # <<>>
    /\ St = prev

(***************************************************************************)
(* SpecNest: a caller's transaction (beginTransaction ... endTransaction,  *)
(* as text editing and the file drop open it) with the composite commands  *)
(* and single mutations issued inside and outside it.                      *)
(***************************************************************************)
MaxNestOps == 3

NextNest ==
    \/ Select(MaxNestOps, AnyNode(St))
    \/ BeginTransaction(MaxNestOps)
    \/ EndTransaction(MaxNestOps)
    \/ DeleteSelectedNodes(MaxNestOps)
    \/ SetSelectedNodesColor
    \/ LinkSelectedNodes
    \/ MoveNode(MaxNestOps)

SpecNest == InitColor /\ [][NextNest]_vars

CompositeOps == {"deleteSelectedNodes", "setSelectedNodesColor", "linkSelectedNodes"}

\* Event b opened a transaction of the caller that the caller has not
\* closed.
CallerTransactionOpen(b) ==
    /\ b \in 1..Len(trace)
    /\ trace[b].op = "beginTransaction"
    /\ \A j \in (b + 1)..Len(trace) : trace[j].op # "endTransaction"
    /\ \A j \in 1..(b - 1) : trace[j].op = "select"

(***************************************************************************)
(* C35, as stated: while a transaction of the caller is open, a composite  *)
(* command issued inside it leaves it open, so that a mutation issued      *)
(* after the composite command and before the caller's endTransaction     *)
(* pushes no snapshot of its own.                                          *)
(***************************************************************************)
C35_CompositeKeepsCallerTransaction ==
    \A b \in 1..Len(trace) :
        CallerTransactionOpen(b) =>
            /\ inTransaction
            /\ b < Len(trace) /\ Last.op \in StructuralOps =>
                  UndoStack(St) = UndoStack(prev)

\* What does hold: without a composite command inside it, the caller's
\* transaction stays open and its mutations push no snapshot.
PlainTransactionCoalesces ==
    \A b \in 1..Len(trace) :
        /\ CallerTransactionOpen(b)
        /\ \A j \in b..Len(trace) : trace[j].op \notin CompositeOps
        => /\ inTransaction
           /\ b < Len(trace) /\ Last.op \in StructuralOps =>
                 UndoStack(St) = UndoStack(prev)

\* A mutation after a composite command inside the caller's transaction
\* pushed a snapshot of its own.
CompositeEndsCallerTransaction ==
    \E b \in 1..Len(trace) :
        /\ CallerTransactionOpen(b)
        /\ Len(trace) = b + 2
        /\ trace[b + 1].op \in CompositeOps
        /\ Last.op = "moveNode"
        /\ Len(UndoStack(St)) = Len(UndoStack(prev)) + 1

\* The last command is the first one after a switchCanvas that made another
\* document active, and it is a mutation that finds its target.
FirstMutationAfterSwitch ==
    /\ Len(trace) >= 2
    /\ trace[Len(trace) - 1].op = "switchCanvas"
    /\ trace[Len(trace) - 1].to \in DOMAIN canvases \ {trace[Len(trace) - 1].from}
    /\ Last.op \in StructuralOps
    /\ Last.pushes

\* The command pushed the document as it was before it, and undo reverts
\* the command.
PushedPreState ==
    /\ UndoStack(St) = PushCapped(UndoStack(prev), View(prev))
    /\ View(undo(St)) = View(prev)

(***************************************************************************)
(* C36, as stated: the first structural mutation on a document after       *)
(* switchCanvas made it active pushes the document's state before the      *)
(* mutation onto its undo stack, so that undo reverts it, whether or not a *)
(* transaction was open when the document became active.                   *)
(***************************************************************************)
C36_FirstMutationAfterSwitchPushes ==
    FirstMutationAfterSwitch => PushedPreState

\* What does hold: the mutation pushes when no transaction is open.
FirstMutationOutsideTransactionPushes ==
    FirstMutationAfterSwitch /\ ~prev.inTransaction => PushedPreState

\* A transaction was open at the switch and the mutation on the document
\* switched to changed it without an undo entry.
MutationAfterSwitchNotUndoable ==
    /\ FirstMutationAfterSwitch
    /\ prev.inTransaction
    /\ View(St) # View(prev)
    /\ UndoStack(St) = <<>>
    /\ View(undo(St)) = View(St)

(***************************************************************************)
(* CanvasStore.renameCanvas, on canvases that carry 'x-metadata'.          *)
(***************************************************************************)
renameCanvas(s, id, name) ==
    IF id \in DOMAIN s.canvases /\ "xmetadata" \in DOMAIN s.canvases[id]
    THEN triggerSave([s EXCEPT !.canvases[id].xmetadata.name = name])
    ELSE s

(***************************************************************************)
(* SpecLive: two documents, mutations of the active one, renaming and      *)
(* switching, with the clock and the timeout of the auto-save.  The clock  *)
(* runs while a save is pending; a timeout that is due runs before the     *)
(* next command.  Timers fire: the step of the clock and the timeout are   *)
(* weakly fair.                                                            *)
(***************************************************************************)
MaxLiveOps == 3

WithMetadata(c, name) ==
    [k \in DOMAIN c \cup {"xmetadata"} |->
        IF k = "xmetadata" THEN [name |-> name] ELSE c[k]]

InitLive ==
    Start([InitStore EXCEPT
              !.canvases = [k \in {"c1", "c2"} |->
                               IF k = "c1" THEN WithMetadata(SampleDoc, "a")
                               ELSE WithMetadata(OtherDoc, "b")]])

\* The commands of the user in the session so far.
LiveCommands ==
    Cardinality({i \in 1..Len(trace) : trace[i].op \notin {"tick", "timeout"}})

\* An event: canvasId is the document the command changed, "" for none.
LiveEvent(op, canvasId) ==
    [op |-> op, id |-> 0, pushes |-> FALSE, canvasId |-> canvasId]

MoveNodeLive ==
    /\ LiveCommands < MaxLiveOps
    /\ ~TimerDue(St)
    /\ LET id == nodes(St)[1].id
       IN  Step(LiveEvent("moveNode", activeCanvasId),
                moveNode(St, id, PosOf(St, id).x + 5, PosOf(St, id).y))

RenameCanvas ==
    /\ LiveCommands < MaxLiveOps
    /\ ~TimerDue(St)
    /\ \E id \in DOMAIN canvases :
          Step(LiveEvent("renameCanvas", id), renameCanvas(St, id, "n"))

SwitchCanvasLive ==
    /\ LiveCommands < MaxLiveOps
    /\ ~TimerDue(St)
    /\ \E id \in DOMAIN canvases \ {activeCanvasId} :
          Step(LiveEvent("switchCanvas", ""), switchCanvas(St, id))

TickLive ==
    /\ saveTimer # <<>>
    /\ ~TimerDue(St)
    /\ Step(LiveEvent("tick", ""), [St EXCEPT !.now = @ + TickStep])

TimeoutCallbackLive ==
    /\ TimerDue(St)
    /\ Step(LiveEvent("timeout", ""), timeoutCallback(St))

NextLive ==
    \/ MoveNodeLive
    \/ RenameCanvas
    \/ SwitchCanvasLive
    \/ TickLive
    \/ TimeoutCallbackLive

SpecLive ==
    InitLive /\ [][NextLive]_vars /\ WF_vars(TickLive) /\ WF_vars(TimeoutCallbackLive)

\* The documents the session changed.
MutatedCanvases ==
    {trace[i].canvasId : i \in {j \in 1..Len(trace) :
                                   trace[j].op \in {"moveNode", "renameCanvas"}}}

\* The copy of document id in storage is the document in memory.
Persisted(id) ==
    \E i \in 1..Len(writes) :
        /\ writes[i].id = id
        /\ \A j \in (i + 1)..Len(writes) : writes[j].id # id
        /\ writes[i].canvas = JsonStringifyCanvas(canvases[id])

AllPersisted == \A id \in MutatedCanvases : Persisted(id)

(***************************************************************************)
(* C37, as stated: once the mutations have stopped, the copy in storage of *)
(* every document that was mutated or renamed is eventually the document   *)
(* in memory, and stays so, also when another document became active and   *)
(* was mutated within the delay.                                           *)
(***************************************************************************)
C37_EveryMutatedDocumentIsPersisted == <>[]AllPersisted

\* The active document was the only one changed.
OnlyActiveChanged ==
    \A i \in 1..Len(trace) :
        /\ trace[i].op # "switchCanvas"
        /\ trace[i].op = "renameCanvas" => trace[i].canvasId = "c1"

\* What does hold: a session that changes the active document only ends
\* with the document in storage.
ActiveDocumentIsPersisted == <>[](OnlyActiveChanged => AllPersisted)

\* A state of rest in which a changed document is not in storage.
ChangeLostAtRest ==
    /\ saveTimer = <<>>
    /\ LiveCommands = MaxLiveOps
    /\ ~AllPersisted

\* The change of c1 is lost to the save of c2 that replaced its timer.
SwitchWithinDelayLosesChange ==
    /\ Len(trace) >= 3
    /\ trace[1].op = "moveNode" /\ trace[1].canvasId = "c1"
    /\ trace[2].op = "switchCanvas"
    /\ trace[3].op = "moveNode" /\ trace[3].canvasId = "c2"
    /\ saveTimer = <<>>
    /\ Persisted("c2")
    /\ ~Persisted("c1")

(***************************************************************************)
(* SpecGone: the session of SpecLive without renaming, with the deletion   *)
(* of a document.                                                          *)
(***************************************************************************)
DeleteCanvasLive ==
    /\ LiveCommands < MaxLiveOps
    /\ ~TimerDue(St)
    /\ \E id \in DOMAIN canvases : \E first \in FirstKeys(St, id) :
          Step(LiveEvent("deleteCanvasById", id), deleteCanvasById(St, id, first))

NextGone ==
    \/ MoveNodeLive
    \/ SwitchCanvasLive
    \/ DeleteCanvasLive
    \/ TickLive
    \/ TimeoutCallbackLive

SpecGone == InitLive /\ [][NextGone]_vars

\* Write i deletes a document from storage.
IsDelete(i) == "deleted" \in DOMAIN writes[i]

\* Write j puts document id in storage and a deletion of id came before it.
PutAfterDelete(j) ==
    /\ ~IsDelete(j)
    /\ \E i \in 1..(j - 1) : IsDelete(i) /\ writes[i].id = writes[j].id

(***************************************************************************)
(* C38, as stated: a document deleteCanvasById removed is not put in       *)
(* storage again, also when a save of it was pending at the deletion.      *)
(***************************************************************************)
C38_DeletedDocumentIsNeverWritten ==
    \A j \in 1..Len(writes) : ~PutAfterDelete(j)

\* Deletion k of the trace happened with a save of the deleted document
\* pending: the last command before it that changed a document changed the
\* deleted one, with no timeout in between.
PendingAtDelete(k) ==
    \E i \in 1..(k - 1) :
        /\ trace[i].op = "moveNode"
        /\ trace[i].canvasId = trace[k].canvasId
        /\ \A m \in (i + 1)..(k - 1) : trace[m].op \notin {"moveNode", "timeout"}

\* What does hold: a document deleted with no save of it pending is not put
\* in storage again.
DeletedAtRestIsNeverWritten ==
    (\A k \in 1..Len(trace) :
        trace[k].op = "deleteCanvasById" => ~PendingAtDelete(k))
    => C38_DeletedDocumentIsNeverWritten

\* The deleted document is in storage again, and not in memory.
DeletedDocumentWrittenAgain ==
    /\ Len(writes) >= 2
    /\ PutAfterDelete(Len(writes))
    /\ writes[Len(writes)].id \notin DOMAIN canvases
    /\ saveTimer = <<>>

(***************************************************************************)
(* CanvasStore of canvas.svelte.ts: link mode.  linkSource is 0 for null.  *)
(***************************************************************************)
toggleLinkMode(s) ==
    LET s1 == [s EXCEPT !.isLinkMode = ~@]
    IN  IF s1.isLinkMode THEN [s1 EXCEPT !.selection = <<>>]
        ELSE [s1 EXCEPT !.linkSource = 0]

exitLinkMode(s) == [s EXCEPT !.isLinkMode = FALSE, !.linkSource = 0]

setLinkSource(s, nodeId) == [s EXCEPT !.linkSource = nodeId]

clearLinkSource(s) == [s EXCEPT !.linkSource = 0]

\* addEdge of canvas.svelte.ts: no snapshot is pushed.
addEdgeL(s, fromNode, toNode) ==
    LET edge == createEdge(s.nextId, fromNode, toNode)
        s0 == [s EXCEPT !.nextId = @ + 1]
    IN  IF HasActive(s0)
        THEN triggerSave(SetEdges(s0, Append(edges(s0), edge)))
        ELSE s0

\* createLinkFromSource without the check for self-links.
createLinkFromSourceSelf(s, targetNodeId) ==
    IF s.linkSource = 0 THEN s
    ELSE IF edgeExists(s, s.linkSource, targetNodeId) THEN s
    ELSE addEdgeL(s, s.linkSource, targetNodeId)

createLinkFromSource(s, targetNodeId) ==
    IF s.linkSource = 0 THEN s
    ELSE IF s.linkSource = targetNodeId THEN s
    ELSE IF edgeExists(s, s.linkSource, targetNodeId) THEN s
    ELSE addEdgeL(s, s.linkSource, targetNodeId)

\* canvas-object handleLinkModeClick on the node with this id.
handleLinkModeClick(s, id) ==
    IF s.linkSource = 0 THEN setLinkSource(s, id)
    ELSE IF s.linkSource # id THEN createLinkFromSource(s, id)
    ELSE s

(***************************************************************************)
(* SpecLinkMode: link mode on two documents, with switchCanvas and         *)
(* deleteNode.  The ids the commands are given are nodes of the active     *)
(* document, the nodes on screen.                                          *)
(***************************************************************************)
MaxLinkModeOps == 4

ActiveNodeIds == {nodes(St)[i].id : i \in 1..Len(nodes(St))}

ToggleLinkMode ==
    /\ Len(trace) < MaxLinkModeOps
    /\ Step(Cmd("toggleLinkMode"), toggleLinkMode(St))

SetLinkSource ==
    /\ Len(trace) < MaxLinkModeOps
    /\ \E id \in ActiveNodeIds :
          Step(CmdId("setLinkSource", id), setLinkSource(St, id))

CreateLinkFromSource ==
    /\ Len(trace) < MaxLinkModeOps
    /\ \E id \in ActiveNodeIds :
          Step(CmdId("createLinkFromSource", id), createLinkFromSource(St, id))

HandleLinkModeClick ==
    /\ Len(trace) < MaxLinkModeOps
    /\ isLinkMode
    /\ \E id \in ActiveNodeIds :
          Step(CmdId("handleLinkModeClick", id), handleLinkModeClick(St, id))

DeleteNodeOnScreen ==
    /\ Len(trace) < MaxLinkModeOps
    /\ \E id \in ActiveNodeIds : Step(CmdId("deleteNode", id), deleteNodeL(St, id))

NextLinkMode ==
    \/ ToggleLinkMode
    \/ SetLinkSource
    \/ CreateLinkFromSource
    \/ HandleLinkModeClick
    \/ DeleteNodeOnScreen
    \/ SwitchCanvas(MaxLinkModeOps)

SpecLinkMode == Init /\ [][NextLinkMode]_vars

\* The last command was a link-mode command that created an edge.
LinkCreated ==
    /\ trace # <<>>
    /\ Last.op \in {"createLinkFromSource", "handleLinkModeClick"}
    /\ Len(edges(St)) = Len(edges(prev)) + 1

NewEdge == edges(St)[Len(edges(St))]

(***************************************************************************)
(* C39, as stated: an edge created through link mode joins two distinct    *)
(* nodes of the active document, whatever switchCanvas, deleteNode and     *)
(* toggleLinkMode did in between.                                          *)
(***************************************************************************)
C39_LinkJoinsTwoNodesOfTheDocument ==
    LinkCreated =>
        /\ NewEdge.fromNode # NewEdge.toNode
        /\ NewEdge.fromNode \in ActiveNodeIds
        /\ NewEdge.toNode \in ActiveNodeIds

\* What does hold: the edge is no self-loop, it starts at the link source
\* and ends at a node of the active document.
LinkIsNoSelfLoop ==
    LinkCreated =>
        /\ NewEdge.fromNode # NewEdge.toNode
        /\ NewEdge.fromNode = prev.linkSource
        /\ NewEdge.toNode \in ActiveNodeIds

\* An edge of the active document starts at a node of another document.
LinkFromOtherDocument ==
    /\ LinkCreated
    /\ activeCanvasId = "c2"
    /\ NewEdge.fromNode \notin ActiveNodeIds
    /\ \E i \in 1..Len(canvases["c1"].nodes) :
          canvases["c1"].nodes[i].id = NewEdge.fromNode

\* An edge of the active document starts at a node that was deleted.
LinkFromDeletedNode ==
    /\ LinkCreated
    /\ activeCanvasId = "c1"
    /\ NewEdge.fromNode \notin ActiveNodeIds

(***************************************************************************)
(* SpecFrame: mutations with undo and redo, among the commands on the      *)
(* viewport, the name, the selection and the filters.  The active document *)
(* was loaded with a name, timestamps and a viewport.                      *)
(***************************************************************************)
MaxFrameOps == 3

FrameDoc ==
    Spread(SampleDoc,
           [xmetadata |-> [name |-> "a", created |-> 1, modified |-> 2],
            xviewport |-> [x |-> 10, y |-> 0, zoom |-> Unit]])

InitFrame ==
    Start([InitStore EXCEPT
              !.canvases = [k \in {"c1", "c2"} |->
                               IF k = "c1" THEN FrameDoc
                               ELSE WithMetadata(OtherDoc, "b")]])

PanFrame ==
    /\ Len(trace) < MaxFrameOps
    /\ Step(Cmd("pan"), pan(St, 7, -3))

ZoomFrame ==
    /\ Len(trace) < MaxFrameOps
    /\ \E center \in ZoomCenters : Step(Cmd("zoom"), zoom(St, 1200, center))

SetViewportFrame ==
    /\ Len(trace) < MaxFrameOps
    /\ Step(Cmd("setViewport"), setViewport(St, [x |-> 1, y |-> 2, zoom |-> 2500]))

RenameCanvasFrame ==
    /\ Len(trace) < MaxFrameOps
    /\ \E id \in DOMAIN canvases :
          Step(Cmd("renameCanvas"), renameCanvas(St, id, "n"))

AddTagFilterFrame ==
    /\ Len(trace) < MaxFrameOps
    /\ Step(Cmd("addTagFilter"), addTagFilter(St, <<"B">>))

RemoveTagFilterFrame ==
    /\ Len(trace) < MaxFrameOps
    /\ Step(Cmd("removeTagFilter"), removeTagFilter(St, <<"B">>))

SetSearchTermFrame ==
    /\ Len(trace) < MaxFrameOps
    /\ Step(Cmd("setSearchTerm"), setSearchTerm(St, <<"A">>))

ClearFiltersFrame ==
    /\ Len(trace) < MaxFrameOps
    /\ Step(Cmd("clearFilters"), clearFilters(St))

NextFrame ==
    \/ AddTextNode(MaxFrameOps)
    \/ MoveNode(MaxFrameOps)
    \/ Undo(MaxFrameOps)
    \/ Redo(MaxFrameOps)
    \/ PanFrame
    \/ ZoomFrame
    \/ SetViewportFrame
    \/ RenameCanvasFrame
    \/ Select(MaxFrameOps, {1, 2})
    \/ Deselect(MaxFrameOps)
    \/ ToggleSelection(MaxFrameOps)
    \/ SelectOnly(MaxFrameOps)
    \/ SelectAll(MaxFrameOps)
    \/ ClearSelection(MaxFrameOps)
    \/ AddTagFilterFrame
    \/ RemoveTagFilterFrame
    \/ SetSearchTermFrame
    \/ ClearFiltersFrame

SpecFrame == InitFrame /\ [][NextFrame]_vars

\* The commands that are no mutation of the structure.
FrameOps ==
    {"pan", "zoom", "setViewport", "renameCanvas",
     "select", "deselect", "toggleSelection", "selectOnly", "selectAll",
     "clearSelection", "addTagFilter", "removeTagFilter", "setSearchTerm",
     "clearFilters"}

\* Documents a and b differ in their nodes and edges at most.
SameButStructure(a, b) ==
    /\ DOMAIN a = DOMAIN b
    /\ \A k \in DOMAIN a \ {"nodes", "edges"} : a[k] = b[k]

(***************************************************************************)
(* C40: undo and redo change the nodes and edges of the active document    *)
(* and the selection only: the viewport, the name and the timestamps, the  *)
(* other documents, the tag filters and the search term stay; and pan,     *)
(* zoom, setViewport, renameCanvas, the selection commands and the filter  *)
(* commands leave every undo stack and every redo stack as they were.      *)
(***************************************************************************)
C40_UndoRedoFrame ==
    trace # <<>> =>
        /\ Last.op \in {"undo", "redo"} =>
              /\ activeCanvasId = prev.activeCanvasId
              /\ DOMAIN canvases = DOMAIN prev.canvases
              /\ \A k \in DOMAIN canvases :
                    IF k = activeCanvasId
                    THEN SameButStructure(canvases[k], prev.canvases[k])
                    ELSE canvases[k] = prev.canvases[k]
              /\ viewport(St) = viewport(prev)
              /\ tagFilters = prev.tagFilters
              /\ searchTerm = prev.searchTerm
        /\ Last.op \in FrameOps => history = prev.history

\* An undo brought the nodes back while the viewport, the name and the
\* filters were no longer the loaded ones.
C40_UndoWitness ==
    /\ Len(trace) = MaxFrameOps
    /\ Last.op = "undo"
    /\ nodes(St) # nodes(prev)
    /\ \/ viewport(St) # FrameDoc.xviewport
       \/ activeCanvas(St).xmetadata.name # "a"
       \/ tagFilters # <<>>
       \/ searchTerm # <<>>

\* A command on the viewport met a redo stack that holds a snapshot.
C40_Witness ==
    /\ trace # <<>>
    /\ Last.op \in {"pan", "zoom", "setViewport"}
    /\ viewport(St) # viewport(prev)
    /\ RedoStack(prev) # <<>>
    /\ RedoStack(St) = RedoStack(prev)

====
